---- MODULE Spec2Model ----
(***************************************************************************)
(* A model of sionna/mapping.py: the bit-label tables, the Constellation,  *)
(* the Mapper, SymbolLogits2LLRs / Demapper, QAM2PAM / PAM2QAM and         *)
(* SymbolInds2Bits.                                                        *)
(*                                                                         *)
(* Arrays are functions over 0..n-1, as in the source (0-based indices).   *)
(* Real numbers are held exactly:                                          *)
(*   - a logit z is an integer e, standing for z = e * ln(Base);           *)
(*   - a sum of exponentials  sum_c Base^(e_c)  is held as its expansion   *)
(*     in base Base: a function from the positions with a non-zero digit   *)
(*     to that digit (ExpNum), so that log-sum-exp is ln of an ExpNum;     *)
(*   - an "app" LLR  ln(S1) - ln(S0)  is the pair of the two ExpNums.      *)
(***************************************************************************)
EXTENDS Integers, Sequences, FiniteSets, TLC

VARIABLES
    constellation,   \* the Constellation instance (a record) or None
    mapper,          \* the Mapper instance or None
    demapper,        \* the Demapper instance or None
    logits2llrs,     \* the SymbolLogits2LLRs instance or None
    llrs2logits,     \* the LLRs2SymbolLogits instance or None
    qam2pam,         \* the QAM2PAM instance or None
    pam2qam,         \* the PAM2QAM instance or None
    inds2bits,       \* the SymbolInds2Bits instance or None
    symboldemapper,  \* the SymbolDemapper instance or None
    pc,              \* "idle": no call in progress; "done": a call has returned
    res              \* the last call: [op, in, out], or None

vars == <<constellation, mapper, demapper, logits2llrs, llrs2logits,
          qam2pam, pam2qam, inds2bits, symboldemapper, pc, res>>

\* Python's None, for an object or an optional argument
None == [none |-> TRUE]
\* the outcome of a call that raises
Error == [error |-> TRUE]
\* an optional integer argument: {} for None, {k} for k
NoInt == {}

(***************************************************************************)
(* Bounds of the model.                                                    *)
(***************************************************************************)
\* largest num_bits_per_symbol an object is constructed with
MaxK == 8
\* logits are e * ln(Base)
Base == 2
\* largest logit (in units of ln(Base)) of an enumerated logit vector
MaxLogit == 2
\* largest number of non-zero logits of an enumerated logit vector
MaxHot == 2
\* largest num_bits_per_symbol of a SymbolLogits2LLRs that is called
MaxKLogits == 3
\* largest num_bits_per_symbol of a Demapper
MaxKDemap == 4
\* largest number of received samples of a Demapper input
MaxSamples == 2
\* the noise variances are u * (squared-distance unit) / ln(Base), u up to
MaxNoUnit == 4
\* largest number of bits of an enumerated Mapper input
MaxBits == 6
\* largest leading dimension of an enumerated Mapper input
MaxBatch == 2

(***************************************************************************)
(* Generic helpers.                                                        *)
(***************************************************************************)
Pow2(n) == 2^n

Range(f) == {f[x] : x \in DOMAIN f}

\* the array f itself, with all its elements evaluated once
Array(f) == f @@ f

\* the value v, evaluated once at the place that binds it
Value(v) == CHOOSE x \in {v} : TRUE

SetMax(S) == CHOOSE x \in S : \A y \in S : y <= x

\* the array holding the elements of sequence s (1-based) at 0..Len(s)-1
ArrayOfSeq(s) == [j \in 0..Len(s)-1 |-> s[j+1]]

\* b[start::2] of an array b
Slice2(b, start) ==
    LET n == Cardinality(DOMAIN b)
        m == IF n > start THEN (n - start + 1) \div 2 ELSE 0
    IN  [j \in 0..m-1 |-> b[start + 2*j]]

RECURSIVE SumRange(_, _, _)
\* f[lo] + ... + f[hi], summed by halves
SumRange(f, lo, hi) ==
    IF lo > hi THEN 0
    ELSE IF lo = hi THEN f[lo]
    ELSE LET mid == (lo + hi) \div 2
         IN  SumRange(f, lo, mid) + SumRange(f, mid + 1, hi)

\* np.sum / tf.reduce_sum of an integer array
ArraySum(f) == SumRange(f, 0, Cardinality(DOMAIN f) - 1)

(***************************************************************************)
(* np.binary_repr(num, width) for num >= 0: the binary digits of num as a  *)
(* string, most significant first, zero-filled on the left to width; and   *)
(* np.array(list(s), dtype=int): the characters parsed to integers.        *)
(***************************************************************************)
DigitChar(d) == IF d = 0 THEN "0" ELSE "1"

CharInt(c) == IF c = "0" THEN 0 ELSE 1

RECURSIVE BinString(_)
BinString(num) ==
    IF num < 2 THEN <<DigitChar(num)>>
    ELSE Append(BinString(num \div 2), DigitChar(num % 2))

\* a binary_repr that writes the least significant digit first
binary_repr_lsb_first(num, width) ==
    LET s == BinString(num)
        pad == IF width > Len(s) THEN width - Len(s) ELSE 0
    IN  [j \in 1..(pad + Len(s)) |->
            IF j <= Len(s) THEN s[Len(s) + 1 - j] ELSE "0"]

binary_repr(num, width) ==
    LET s == BinString(num)
        pad == IF width > Len(s) THEN width - Len(s) ELSE 0
    IN  [j \in 1..(pad + Len(s)) |-> IF j <= pad THEN "0" ELSE s[j - pad]]

\* np.array(list(np.binary_repr(i, width)), dtype=np.int16)
BitArray(i, width) ==
    LET s == binary_repr(i, width)
    IN  [j \in 0..Len(s)-1 |-> CharInt(s[j+1])]

\* the array "a" of the constructors: a[i,:] = BitArray(i, K)
LabelArray(K) == [i \in 0..Pow2(K)-1 |-> BitArray(i, K)]

(***************************************************************************)
(* np.where(col == v)[0]: the indices at which col equals v, ascending.    *)
(***************************************************************************)
np_where(col, v) ==
    LET n == Cardinality(DOMAIN col)
    IN  ArrayOfSeq(SelectSeq([j \in 1..n |-> j-1], LAMBDA x : col[x] = v))

(***************************************************************************)
(* SymbolLogits2LLRs.__init__                                              *)
(***************************************************************************)
\* an index table that always selects on the value 0
IndexTableOfZero(a, K, v) ==
    LET half == Cardinality(DOMAIN a) \div 2
        col(i) == [s \in DOMAIN a |-> a[s][i]]
    IN  [r \in 0..half-1 |-> [i \in 0..K-1 |-> np_where(col(i), 0)[r]]]

\* an index table whose column i selects on the label bit K-1-i
IndexTableReversed(a, K, v) ==
    LET half == Cardinality(DOMAIN a) \div 2
        col(i) == [s \in DOMAIN a |-> a[s][K-1-i]]
    IN  [r \in 0..half-1 |-> [i \in 0..K-1 |-> np_where(col(i), v)[r]]]

\* c0[:,i] = np.where(a[:,i]==0)[0], an array [num_points/2, K]
IndexTable(a, K, v) ==
    LET half == Cardinality(DOMAIN a) \div 2
        col(i) == [s \in DOMAIN a |-> a[s][i]]
    IN  [r \in 0..half-1 |-> [i \in 0..K-1 |-> np_where(col(i), v)[r]]]

SymbolLogits2LLRs_init(method, K, hard_out, with_prior) ==
    LET a == LabelArray(K)
    IN  [method |-> method,
         hard_out |-> hard_out,
         num_bits_per_symbol |-> K,
         with_prior |-> with_prior,
         c0 |-> IndexTable(a, K, 0),
         c1 |-> IndexTable(a, K, 1),
         a |-> IF with_prior
               THEN [i \in DOMAIN a |-> [k \in 0..K-1 |-> 2*a[i][k] - 1]]
               ELSE None]

(***************************************************************************)
(* Exact sums of exponentials.  An ExpNum is a number  sum_p d[p]*Base^p   *)
(* with digits d[p] in 1..Base-1 at the positions of its domain.           *)
(***************************************************************************)
ExpZero == [p \in {} |-> 0]

RECURSIVE AddPow(_, _)
\* num + Base^p
AddPow(num, p) ==
    IF p \notin DOMAIN num
    THEN Array([q \in DOMAIN num \cup {p} |-> IF q = p THEN 1 ELSE num[q]])
    ELSE IF num[p] + 1 < Base
         THEN [num EXCEPT ![p] = @ + 1]
         ELSE AddPow(Array([q \in DOMAIN num \ {p} |-> num[q]]), p + 1)

RECURSIVE AddPowTimes(_, _, _)
\* num + t * Base^p
AddPowTimes(num, p, t) ==
    IF t = 0 THEN num ELSE AddPowTimes(AddPow(num, p), p, t - 1)

RECURSIVE ExpAdd(_, _)
\* num1 + num2, one digit of num2 at a time
ExpAdd(num1, num2) ==
    IF DOMAIN num2 = {} THEN num1
    ELSE LET p == CHOOSE q \in DOMAIN num2 : \A r \in DOMAIN num2 : r <= q
         IN  ExpAdd(AddPowTimes(num1, p, num2[p]),
                    Array([q \in DOMAIN num2 \ {p} |-> num2[q]]))

RECURSIVE ExpSumRange(_, _, _)
\* Base^x[lo] + ... + Base^x[hi], summed by halves
ExpSumRange(x, lo, hi) ==
    IF lo > hi THEN ExpZero
    ELSE IF lo = hi THEN AddPow(ExpZero, x[lo])
    ELSE LET mid == (lo + hi) \div 2
         IN  ExpAdd(ExpSumRange(x, lo, mid), ExpSumRange(x, mid + 1, hi))

ExpDigit(num, p) == IF p \in DOMAIN num THEN num[p] ELSE 0

\* num1 >= num2, decided at the highest position where the digits differ
ExpGeq(num1, num2) ==
    LET diff == {p \in DOMAIN num1 \cup DOMAIN num2 :
                    ExpDigit(num1, p) # ExpDigit(num2, p)}
    IN  diff = {} \/ ExpDigit(num1, SetMax(diff)) > ExpDigit(num2, SetMax(diff))

ExpGt(num1, num2) == ~ExpGeq(num2, num1)

(***************************************************************************)
(* The reductions over a vector x of logits.  A reduced value is ln of an  *)
(* ExpNum: tf.reduce_logsumexp(x) = ln(sum_c Base^x[c]) and                *)
(* tf.reduce_max(x) = ln(Base^max(x)).                                     *)
(***************************************************************************)
reduce_logsumexp(x) == ExpSumRange(x, 0, Cardinality(DOMAIN x) - 1)

reduce_max(x) == AddPow(ExpZero, SetMax(Range(x)))

\* self._reduce, selected in __init__ by the method
Reduce(method, x) ==
    IF method = "app" THEN reduce_logsumexp(x) ELSE reduce_max(x)

\* the difference ln(s1) - ln(s0) of two reduced values
LogDiff(s1, s0) == [num |-> s1, den |-> s0]

\* sionna.utils.hard_decisions of one LLR ln(num) - ln(den)
hard_decisions(llr) == IF ExpGeq(llr.num, llr.den) THEN 1 ELSE 0

(***************************************************************************)
(* SymbolLogits2LLRs.call (no prior): logits is an array over the points.  *)
(***************************************************************************)
\* tf.gather(exponents, c, axis=-1): [r][i] |-> exponents[c[r][i]]
Gather2(exponents, c) ==
    [r \in DOMAIN c |-> [i \in DOMAIN c[r] |-> exponents[c[r][i]]]]

\* the column i of a gathered array, the vector reduced along axis -2
Column(g, i) == [r \in DOMAIN g |-> g[r][i]]

\* a call that subtracts the wrong way round: zeros minus ones
SymbolLogits2LLRs_call_flipped(self, logits) ==
    LET exp0 == Gather2(logits, self.c0)
        exp1 == Gather2(logits, self.c1)
        llr == [i \in 0..self.num_bits_per_symbol-1 |->
                    LogDiff(Reduce(self.method, Column(exp0, i)),
                            Reduce(self.method, Column(exp1, i)))]
    IN  IF self.hard_out
        THEN [i \in DOMAIN llr |-> hard_decisions(llr[i])]
        ELSE llr

\* a call whose hard decisions are inverted
SymbolLogits2LLRs_call_inverted(self, logits) ==
    LET exp0 == Gather2(logits, self.c0)
        exp1 == Gather2(logits, self.c1)
        llr == [i \in 0..self.num_bits_per_symbol-1 |->
                    LogDiff(Reduce(self.method, Column(exp1, i)),
                            Reduce(self.method, Column(exp0, i)))]
    IN  IF self.hard_out
        THEN [i \in DOMAIN llr |-> 1 - hard_decisions(llr[i])]
        ELSE llr

SymbolLogits2LLRs_call(self, logits) ==
    LET exp0 == Gather2(logits, self.c0)
        exp1 == Gather2(logits, self.c1)
        llr == [i \in 0..self.num_bits_per_symbol-1 |->
                    LogDiff(Reduce(self.method, Column(exp1, i)),
                            Reduce(self.method, Column(exp0, i)))]
    IN  IF self.hard_out
        THEN [i \in DOMAIN llr |-> hard_decisions(llr[i])]
        ELSE llr

(***************************************************************************)
(* Constellation points.  A vector of complex points is held exactly as    *)
(* integer coordinates over a common real scale:                           *)
(*     point[i] = (re[i] + j*im[i]) / sqrt(vn / vd)                        *)
(* in lowest terms (Canon): the coordinates have no common factor and      *)
(* vn/vd is a reduced fraction.                                            *)
(***************************************************************************)
Abs(x) == IF x < 0 THEN -x ELSE x

RECURSIVE GCD(_, _)
GCD(x, y) == IF y = 0 THEN Abs(x) ELSE GCD(y, x % Abs(y))

RECURSIVE GCDRange(_, _, _)
\* the greatest common divisor of f[lo], ..., f[hi], taken by halves
GCDRange(f, lo, hi) ==
    IF lo > hi THEN 0
    ELSE IF lo = hi THEN Abs(f[lo])
    ELSE LET mid == (lo + hi) \div 2
         IN  GCD(GCDRange(f, lo, mid), GCDRange(f, mid + 1, hi))

ArrayGCD(f) == GCDRange(f, 0, Cardinality(DOMAIN f) - 1)

\* the points (x.re + j*x.im) / (a * sqrt(x.vn / x.vd)) in lowest terms
CanonBy(x, a) ==
    LET g == GCD(ArrayGCD(x.re), ArrayGCD(x.im))
    IN  IF g = 0 THEN [re |-> x.re, im |-> x.im, vn |-> 1, vd |-> 1]
        ELSE LET t == GCD(a, g)
                 a1 == a \div t
                 g1 == g \div t
                 n == x.vn * a1 * a1
                 d == x.vd * g1 * g1
                 h == GCD(n, d)
             IN  [re |-> Array([i \in DOMAIN x.re |-> x.re[i] \div g]),
                  im |-> Array([i \in DOMAIN x.im |-> x.im[i] \div g]),
                  vn |-> n \div h,
                  vd |-> d \div h]

Canon(x) == CanonBy(x, 1)

RECURSIVE pam_gray_unreflected(_)
\* a PAM mapping that adds the value of the remaining bits
pam_gray_unreflected(b) ==
    LET n == Cardinality(DOMAIN b)
        rest == [j \in 0..n-2 |-> b[j+1]]
    IN  IF n > 1
        THEN (1 - 2*b[0]) * (2^(n-1) + pam_gray_unreflected(rest))
        ELSE 1 - 2*b[0]

\* the natural binary PAM mapping: 2 * (value of the bits) - (2^n - 1)
pam_gray_natural(b) ==
    LET n == Cardinality(DOMAIN b)
    IN  2 * ArraySum([j \in 0..n-1 |-> b[j] * 2^(n-1-j)]) - (2^n - 1)

RECURSIVE pam_gray(_)
pam_gray(b) ==
    LET n == Cardinality(DOMAIN b)
        rest == [j \in 0..n-2 |-> b[j+1]]
    IN  IF n > 1
        THEN (1 - 2*b[0]) * (2^(n-1) - pam_gray(rest))
        ELSE 1 - 2*b[0]

\* the sum of all squares 1^2 + 2^2 + ... + m^2
SumAllSquares(m) == ArraySum([i \in 0..m-1 |-> (i+1)*(i+1)])

\* np.sum(np.linspace(1, 2**n-1, 2**(n-1))**2): 1^2 + 3^2 + ... + (2m-1)^2
SumOddSquares(m) == ArraySum([i \in 0..m-1 |-> (2*i+1)*(2*i+1)])

\* qam(num_bits_per_symbol, normalize); qam_var = 2^(2-n) * sum, as 4*sum/2^n
qam(K, normalize) ==
    IF ~(K % 2 = 0 /\ K > 0) THEN Error
    ELSE LET n == K \div 2
             c == [i \in 0..Pow2(K)-1 |-> BitArray(i, K)]
         IN  Canon([re |-> [i \in DOMAIN c |-> pam_gray(Slice2(c[i], 0))],
                    im |-> [i \in DOMAIN c |-> pam_gray(Slice2(c[i], 1))],
                    vn |-> IF normalize THEN 4 * SumOddSquares(2^(n-1)) ELSE 1,
                    vd |-> IF normalize THEN 2^n ELSE 1])

\* pam(num_bits_per_symbol, normalize); pam_var = 2^(1-n) * sum, as 2*sum/2^n
pam(K, normalize) ==
    IF ~(K > 0) THEN Error
    ELSE LET n == K
             c == [i \in 0..Pow2(K)-1 |-> BitArray(i, K)]
         IN  Canon([re |-> [i \in DOMAIN c |-> pam_gray(c[i])],
                    im |-> [i \in DOMAIN c |-> 0],
                    vn |-> IF normalize THEN 2 * SumOddSquares(2^(n-1)) ELSE 1,
                    vd |-> IF normalize THEN 2^n ELSE 1])

(***************************************************************************)
(* Constellation.__init__ / build (types "qam" and "pam") and call.        *)
(***************************************************************************)
\* the dtype arguments; the first is the default of every constructor
ComplexDtypes == {"complex64", "complex128"}

\* a custom constellation that takes an initial_value of any shape
CustomPointsUnchecked(K, initial_value) ==
    IF ~(K > 0) THEN Error
    ELSE IF initial_value = None THEN None
    ELSE Canon(initial_value.points)

\* the points of a custom constellation: tf.cast(initial_value) when it is a
\* vector of 2**K points, None when they are still to be drawn at random
CustomPoints(K, initial_value) ==
    IF ~(K > 0) THEN Error
    ELSE IF initial_value = None THEN None
    ELSE IF Len(initial_value.shape) = 1 /\ initial_value.shape[1] = 2^K
         THEN Canon(initial_value.points) ELSE Error

\* the object that __init__ leaves
ConstellationObject(constellation_type, K, normalize, center, trainable, points) ==
    IF points = Error THEN Error
    ELSE [constellation_type |-> constellation_type,
          num_bits_per_symbol |-> K,
          normalize |-> normalize,
          center |-> center,
          trainable |-> trainable,
          dtype |-> "complex64",
          points |-> points]

\* a construction that builds QAM and PAM whatever the initial_value
Constellation_init_any_initial(constellation_type, K, initial_value, normalize, center, trainable) ==
    ConstellationObject(constellation_type, K, normalize, center, trainable,
        IF constellation_type = "qam"
        THEN IF K % 2 = 0 /\ K > 0 THEN qam(K, normalize) ELSE Error
        ELSE IF constellation_type = "pam"
        THEN IF K > 0 THEN pam(K, normalize) ELSE Error
        ELSE IF constellation_type = "custom"
        THEN CustomPoints(K, initial_value)
        ELSE Error)

\* Constellation.__init__ with the default dtype, up to the random draw of a
\* custom constellation without initial_value, whose points are None here
Constellation_init(constellation_type, K, initial_value, normalize, center, trainable) ==
    ConstellationObject(constellation_type, K, normalize, center, trainable,
        IF constellation_type = "qam"
        THEN IF K % 2 = 0 /\ K > 0 /\ initial_value = None
             THEN qam(K, normalize) ELSE Error
        ELSE IF constellation_type = "pam"
        THEN IF K > 0 /\ initial_value = None
             THEN pam(K, normalize) ELSE Error
        ELSE IF constellation_type = "custom"
        THEN CustomPoints(K, initial_value)
        ELSE Error)

\* Constellation(..., dtype=dtype): the same object in the precision asked for
Constellation_dtype(c, dtype) ==
    IF c = Error \/ dtype \notin ComplexDtypes THEN Error
    ELSE [c EXCEPT !.dtype = dtype]

\* x - tf.reduce_mean(x)
CenterPoints(x) ==
    LET n == Cardinality(DOMAIN x.re)
        sre == ArraySum(x.re)
        sim == ArraySum(x.im)
    IN  CanonBy([re |-> Array([i \in DOMAIN x.re |-> n * x.re[i] - sre]),
                 im |-> Array([i \in DOMAIN x.im |-> n * x.im[i] - sim]),
                 vn |-> x.vn,
                 vd |-> x.vd], n)

\* x / sqrt(tf.reduce_mean(tf.square(tf.abs(x))))
NormalizePoints(x) ==
    LET n == Cardinality(DOMAIN x.re)
        sq == Array([i \in DOMAIN x.re |-> x.re[i]*x.re[i] + x.im[i]*x.im[i]])
    IN  Canon([re |-> x.re, im |-> x.im, vn |-> ArraySum(sq), vd |-> n])

\* a view that ignores the flags
Constellation_call_stored(self) == self.points

\* a view that scales to unit power before it centers
Constellation_call_normalize_first(self) ==
    LET x0 == self.points
        x1 == IF self.normalize THEN NormalizePoints(x0) ELSE x0
    IN  IF self.center THEN CenterPoints(x1) ELSE x1

Constellation_call(self) ==
    LET x0 == self.points
        x1 == IF self.center THEN CenterPoints(x0) ELSE x0
    IN  IF self.normalize THEN NormalizePoints(x1) ELSE x1

\* one complex value of a vector of points
PointAt(x, i) == [re |-> x.re[i], im |-> x.im[i], vn |-> x.vn, vd |-> x.vd]

(***************************************************************************)
(* Tensors: [shape |-> sequence of dimensions, data |-> the elements in    *)
(* row-major order, an array over 0..size-1].                              *)
(***************************************************************************)
RECURSIVE SeqProduct(_)
SeqProduct(s) == IF Len(s) = 0 THEN 1 ELSE Head(s) * SeqProduct(Tail(s))

Tensor(shape, data) == [shape |-> shape, data |-> data]

Size(t) == Cardinality(DOMAIN t.data)

\* tf.reshape(t, <<-1>> \o dims): the leading dimension is inferred; an
\* error when the elements do not fill the requested dimensions exactly
tf_reshape_infer(t, dims) ==
    LET known == SeqProduct(dims)
    IN  IF known = 0 \/ Size(t) % known # 0 THEN Error
        ELSE Tensor(<<Size(t) \div known>> \o dims, t.data)

\* tf.gather(params, indices, axis=0) for a tensor of indices
tf_gather(params, indices) ==
    Tensor(indices.shape, [x \in DOMAIN indices.data |-> params[indices.data[x]]])

\* a check that hands back whatever instance it is given
create_or_check_constellation_unchecked(constellation_type, K, c, dtype) ==
    IF c # None THEN c
    ELSE IF constellation_type \in {"qam", "pam"} /\ K # NoInt
         THEN Constellation_dtype(
                  Constellation_init(constellation_type, CHOOSE k \in K : TRUE,
                                     None, TRUE, FALSE, FALSE), dtype)
         ELSE Error


(***************************************************************************)
(* Constellation.create_or_check_constellation                             *)
(***************************************************************************)
create_or_check_constellation(constellation_type, K, c, dtype) ==
    IF c # None
    THEN IF constellation_type \in {"None", "custom"}
            /\ K \subseteq {c.num_bits_per_symbol}
            /\ c.dtype = dtype
         THEN c ELSE Error
    ELSE IF constellation_type \in {"qam", "pam"} /\ K # NoInt
         THEN Constellation_dtype(
                  Constellation_init(constellation_type, CHOOSE k \in K : TRUE,
                                     None, TRUE, FALSE, FALSE), dtype)
         ELSE Error

(***************************************************************************)
(* Mapper                                                                  *)
(***************************************************************************)
\* a binary base that weights the first bit least: 2**range(0, K)
BinaryBaseLsbFirst(K) == [j \in 0..K-1 |-> 2^j]

\* 2**tf.constant(range(K-1, -1, -1))
BinaryBase(K) == [j \in 0..K-1 |-> 2^(K-1-j)]

Mapper_init(constellation_type, K, c, return_indices) ==
    LET obj == create_or_check_constellation(constellation_type, K, c, "complex64")
    IN  IF obj = Error THEN Error
        ELSE [return_indices |-> return_indices,
              binary_base |-> BinaryBase(obj.num_bits_per_symbol)]

\* int_rep of one group of K bits: tf.reduce_sum(group * binary_base)
GroupIndex(data, g, K, binary_base) ==
    ArraySum([j \in 0..K-1 |-> data[g*K + j] * binary_base[j]])

\* Mapper.call; c is the Constellation the mapper refers to
Mapper_call(self, c, inputs) ==
    LET K == c.num_bits_per_symbol
        rank == Len(inputs.shape)
    IN  IF rank < 2 THEN Error
        ELSE LET last == inputs.shape[rank]
                 new_dims == SubSeq(inputs.shape, 2, rank-1)
                               \o <<last \div K, K>>
                 inputs_reshaped == tf_reshape_infer(inputs, new_dims)
             IN  IF inputs_reshaped = Error THEN Error
                 ELSE LET shp == SubSeq(inputs_reshaped.shape, 1,
                                        Len(inputs_reshaped.shape) - 1)
                          int_rep == Tensor(shp,
                              [g \in 0..SeqProduct(shp)-1 |->
                                  GroupIndex(inputs_reshaped.data, g, K,
                                             self.binary_base)])
                          pts == Value(Constellation_call(c))
                          x == tf_gather([i \in DOMAIN pts.re |-> PointAt(pts, i)],
                                         int_rep)
                      IN  IF self.return_indices
                          THEN [x |-> x, ind |-> int_rep]
                          ELSE [x |-> x]

(***************************************************************************)
(* SymbolInds2Bits                                                         *)
(***************************************************************************)
SymbolInds2Bits_init(K) == [bit_labels |-> LabelArray(K)]

\* tf.gather(self._bit_labels, symbol_ind): shape input.shape + [K]
SymbolInds2Bits_call(self, symbol_ind) ==
    LET K == Cardinality(DOMAIN self.bit_labels[0])
    IN  Tensor(symbol_ind.shape \o <<K>>,
               [x \in 0..Size(symbol_ind)*K - 1 |->
                   self.bit_labels[symbol_ind.data[x \div K]][x % K]])

(***************************************************************************)
(* The Mapper system: a Constellation, a Mapper on it and a               *)
(* SymbolInds2Bits of the same num_bits_per_symbol.                        *)
(***************************************************************************)
ConstellationTypes == {"qam", "pam"}

BitTensors(shape) ==
    {Tensor(shape, d) : d \in [0..SeqProduct(shape)-1 -> {0, 1}]}

MapperShapes ==
    {<<n>> : n \in 1..MaxBatch}
        \cup {<<b, n>> : b \in 1..MaxBatch, n \in 1..MaxBits}

\* the inputs of Mapper.call: every bit tensor of rank 2 of at most MaxBits
\* bits, every bit tensor of rank 1 of at most MaxBatch bits, and every
\* single group of K bits
MapperInputs(K) ==
    UNION {BitTensors(shape) :
             shape \in {sh \in MapperShapes : SeqProduct(sh) <= MaxBits}
                          \cup {<<1, K>>}}

Init ==
    \E ctype \in ConstellationTypes, K \in 1..MaxK,
       normalize \in BOOLEAN, center \in BOOLEAN, return_indices \in BOOLEAN :
        /\ Constellation_init(ctype, K, None, normalize, center, FALSE) # Error
        /\ constellation =
              Constellation_init(ctype, K, None, normalize, center, FALSE)
        /\ mapper = Mapper_init("None", {K}, constellation, return_indices)
        /\ inds2bits = SymbolInds2Bits_init(K)
        /\ symboldemapper = None
        /\ demapper = None
        /\ logits2llrs = None
        /\ llrs2logits = None
        /\ qam2pam = None
        /\ pam2qam = None
        /\ pc = "idle"
        /\ res = None

Objects == <<constellation, mapper, demapper, logits2llrs, llrs2logits,
             qam2pam, pam2qam, inds2bits, symboldemapper>>

\* x = mapper(bits)
MapperCall ==
    /\ pc = "idle"
    /\ mapper # None
    /\ \E inputs \in MapperInputs(constellation.num_bits_per_symbol) :
          res' = [op |-> "Mapper", in |-> inputs,
                  out |-> Mapper_call(mapper, constellation, inputs)]
    /\ pc' = "done"
    /\ UNCHANGED Objects

\* bits = SymbolInds2Bits(K)(ind), ind the indices a Mapper call returned
MapperThenSymbolInds2Bits ==
    /\ pc = "done"
    /\ res.op = "Mapper"
    /\ res.out # Error
    /\ mapper.return_indices
    /\ res' = [op |-> "MapperThenSymbolInds2Bits", in |-> res.in,
               out |-> SymbolInds2Bits_call(inds2bits, res.out.ind)]
    /\ pc' = "done"
    /\ UNCHANGED Objects

\* the caller takes the result
Return ==
    /\ pc = "done"
    /\ pc' = "idle"
    /\ res' = None
    /\ UNCHANGED Objects

Next == MapperCall \/ MapperThenSymbolInds2Bits \/ Return

Spec == Init /\ [][Next]_vars

(***************************************************************************)
(* Claims on the Mapper system.                                            *)
(***************************************************************************)
LastDim(t) == t.shape[Len(t.shape)]

\* the value of the K bits data[first .. first+K-1] read as a binary number,
\* first bit most significant (Horner's rule)
RECURSIVE MsbFirstValue(_, _, _)
MsbFirstValue(data, first, K) ==
    IF K = 0 THEN 0
    ELSE 2 * MsbFirstValue(data, first, K-1) + data[first + K - 1]

MapperReturned == pc = "done" /\ res.op = "Mapper"

\* C4: for an input of rank >= 2 whose trailing dimension n is a multiple of
\* K, Mapper.call returns n/K symbols per row; symbol g of a row is the
\* effective constellation point at the index sum_j b[g*K+j] * 2^(K-1-j) of
\* the bits g*K .. g*K+K-1 of that row, and that index is the one returned.
C4_MapperIndexAndPoint ==
    MapperReturned =>
        LET K == constellation.num_bits_per_symbol
            n == LastDim(res.in)
            rows == Size(res.in) \div n
            lead == SubSeq(res.in.shape, 1, Len(res.in.shape) - 1)
            points == Constellation_call(constellation)
        IN  (Len(res.in.shape) >= 2 /\ n % K = 0) =>
               /\ res.out # Error
               /\ res.out.x.shape = lead \o <<n \div K>>
               /\ Size(res.out.x) = rows * (n \div K)
               /\ \A r \in 0..rows-1, g \in 0..(n \div K)-1 :
                     LET ind == MsbFirstValue(res.in.data, r*n + g*K, K)
                     IN  /\ res.out.x.data[r*(n \div K) + g]
                              = PointAt(points, ind)
                         /\ mapper.return_indices =>
                              res.out.ind.data[r*(n \div K) + g] = ind

\* a call that maps two groups of three bits, 011 and 110, to the points 3, 6
C4_Witness ==
    /\ MapperReturned
    /\ constellation.num_bits_per_symbol = 3
    /\ constellation.normalize
    /\ mapper.return_indices
    /\ res.in = Tensor(<<1, 6>>, [x \in 0..5 |-> IF x \in {1, 2, 3, 4} THEN 1 ELSE 0])
    /\ res.out.ind.data = [x \in 0..1 |-> IF x = 0 THEN 3 ELSE 6]
    /\ res.out.x.data[1] = PointAt(Constellation_call(constellation), 6)

RoundTripReturned == pc = "done" /\ res.op = "MapperThenSymbolInds2Bits"

\* C5: mapping bits (return_indices on) and converting the returned indices
\* with SymbolInds2Bits gives back the original bits, for every K in 1..MaxK
\* and each of the 2^K patterns of one group.
C5_MapThenToBitsRoundTrip ==
    RoundTripReturned =>
        LET K == constellation.num_bits_per_symbol
            n == LastDim(res.in)
        IN  n % K = 0 =>
               /\ res.out.data = res.in.data
               /\ res.out.shape =
                     SubSeq(res.in.shape, 1, Len(res.in.shape) - 1)
                         \o <<n \div K, K>>

\* the pattern 10110010 of K = 8 bits came back
C5_Witness ==
    /\ RoundTripReturned
    /\ constellation.num_bits_per_symbol = 8
    /\ res.in = Tensor(<<1, 8>>, [x \in 0..7 |-> IF x \in {0, 2, 3, 6} THEN 1 ELSE 0])
    /\ res.out.data = res.in.data

\* C6: Mapper.call fails whenever the trailing dimension of its input is not
\* a multiple of K.
C6_RejectsNonMultiple ==
    MapperReturned =>
        (LastDim(res.in) % constellation.num_bits_per_symbol # 0
            => res.out = Error)

(***************************************************************************)
(* Demapper.  A received sample is a complex value on the scale of the     *)
(* effective constellation points, [re, im, vn, vd]; a noise variance is   *)
(* [n, d], standing for (n/d) / ln(Base), so that -|y-c|^2/no is an        *)
(* integer multiple of ln(Base) for the inputs drawn below.                *)
(***************************************************************************)
\* 1 / np.finfo(dtype).tiny, in the units of a noise variance
TinyInverse == 1024

\* np.finfo(dtype).tiny: a positive value below every positive noise
\* variance of the model
Tiny == [n |-> 1, d |-> TinyInverse]

Demapper_init(demapping_method, constellation_type, K, c, hard_out, with_prior) ==
    LET obj == create_or_check_constellation(constellation_type, K, c, "complex64")
    IN  IF obj = Error THEN Error
        ELSE [with_prior |-> with_prior,
              logits2llrs |-> SymbolLogits2LLRs_init(demapping_method,
                                  obj.num_bits_per_symbol, hard_out, with_prior),
              no_threshold |-> Tiny]

\* the smaller of the two instead of the larger
NoMinimum(no, threshold) ==
    IF no.n * threshold.d >= threshold.n * no.d THEN threshold ELSE no

\* tf.math.maximum(no, threshold) of two fractions with positive denominators
NoMaximum(no, threshold) ==
    IF no.n * threshold.d >= threshold.n * no.d THEN no ELSE threshold

\* tf.pow(tf.abs(y - c), 2) for y and c on the same scale, as the fraction
\* [n, d] = ((dre^2 + dim^2) * vd) / vn
SquaredDist(y, c) ==
    LET dre == y.re - c.re
        dim == y.im - c.im
    IN  [n |-> (dre*dre + dim*dim) * c.vd, d |-> c.vn]

\* squared_dist / no without the minus sign
ExponentUnsigned(sq, no) == (sq.n * no.d) \div (sq.d * no.n)

\* -squared_dist / no, in units of ln(Base)
Exponent(sq, no) == 0 - ((sq.n * no.d) \div (sq.d * no.n))

\* whether the divisor is positive and -squared_dist / no is a whole
\* multiple of ln(Base)
ExponentIsWhole(sq, no) == no.n > 0 /\ (sq.n * no.d) % (sq.d * no.n) = 0

\* the exponents of one received sample over the points
Exponents(points, y, no) ==
    Array([i \in DOMAIN points.re |->
              Exponent(SquaredDist(y, PointAt(points, i)), no)])

\* Demapper.call without prior; c is the Constellation the demapper refers
\* to, y a tensor [n] of samples and no a scalar
Demapper_call(self, c, y, no) ==
    LET points == Value(Constellation_call(c))
        K == c.num_bits_per_symbol
        no1 == NoMaximum(no, self.no_threshold)
        llr == Array([s \in DOMAIN y.data |->
                   Array(SymbolLogits2LLRs_call(self.logits2llrs,
                                          Exponents(points, y.data[s], no1)))])
        n == y.shape[Len(y.shape)]
    IN  Tensor(SubSeq(y.shape, 1, Len(y.shape) - 1) \o <<n * K>>,
               [x \in 0..Size(y)*K - 1 |-> llr[x \div K][x % K]])

(***************************************************************************)
(* LLRs2SymbolLogits.__init__                                              *)
(***************************************************************************)
LLRs2SymbolLogits_init(K, hard_out) ==
    LET a == LabelArray(K)
    IN  [hard_out |-> hard_out,
         num_bits_per_symbol |-> K,
         a |-> [i \in DOMAIN a |-> [k \in 0..K-1 |-> 2*a[i][k] - 1]]]

(***************************************************************************)
(* The demapping side: a SymbolLogits2LLRs, with the LLRs2SymbolLogits,    *)
(* the SymbolInds2Bits and the Mapper (on a PAM constellation) of the same *)
(* num_bits_per_symbol.                                                    *)
(***************************************************************************)
Methods == {"app", "maxlog"}

RECURSIVE HotVectors(_, _)
\* the logit vectors over n points with at most m non-zero logits, each in
\* 1..MaxLogit
HotVectors(n, m) ==
    IF m = 0 THEN {[i \in 0..n-1 |-> 0]}
    ELSE LET fewer == HotVectors(n, m - 1)
         IN  fewer \cup {[v EXCEPT ![p] = h] :
                            v \in fewer, p \in 0..n-1, h \in 1..MaxLogit}

\* the inputs of SymbolLogits2LLRs.call
LogitVectors(K) == HotVectors(Pow2(K), MaxHot)

\* a standalone SymbolLogits2LLRs
InitLogits2LLRs ==
    \E K \in 1..MaxKLogits, method \in Methods, hard_out \in BOOLEAN :
        /\ logits2llrs = SymbolLogits2LLRs_init(method, K, hard_out, FALSE)
        /\ constellation = None
        /\ demapper = None

\* a Constellation and a Demapper on it
InitDemapper ==
    \E ctype \in ConstellationTypes, K \in 1..MaxKDemap,
       normalize \in BOOLEAN, center \in BOOLEAN,
       method \in Methods, hard_out \in BOOLEAN :
        /\ Constellation_init(ctype, K, None, normalize, center, FALSE) # Error
        /\ constellation =
              Constellation_init(ctype, K, None, normalize, center, FALSE)
        /\ demapper = Demapper_init(method, "None", {K}, constellation,
                                    hard_out, FALSE)
        /\ logits2llrs = None

InitLLR ==
    /\ InitLogits2LLRs \/ InitDemapper
    /\ llrs2logits = None
    /\ inds2bits = None
    /\ symboldemapper = None
    /\ mapper = None
    /\ qam2pam = None
    /\ pam2qam = None
    /\ pc = "idle"
    /\ res = None

\* llr = SymbolLogits2LLRs(method, K, hard_out)(logits)
SymbolLogits2LLRsCall ==
    /\ pc = "idle"
    /\ logits2llrs # None
    /\ ~logits2llrs.with_prior
    /\ \E logits \in LogitVectors(logits2llrs.num_bits_per_symbol) :
          res' = [op |-> "SymbolLogits2LLRs", in |-> logits,
                  out |-> SymbolLogits2LLRs_call(logits2llrs, logits)]
    /\ pc' = "done"
    /\ UNCHANGED Objects

\* the tensors [n] of received samples: n consecutive constellation points,
\* from any first point
SampleTensors(points) ==
    LET np == Cardinality(DOMAIN points.re)
    IN  {Tensor(<<n>>, [s \in 0..n-1 |-> PointAt(points, (first + s) % np)]) :
            n \in 1..MaxSamples, first \in 0..np-1}

\* the noise variances u * (vd/vn) / ln(Base) on the scale of the points
NoiseVariances(points) ==
    {[n |-> u * points.vd, d |-> points.vn] : u \in 1..MaxNoUnit}

\* the noise variances that are not positive: 0 and -1
NonPositiveNoise == {[n |-> 0 - u, d |-> 1] : u \in 0..1}

\* llr = Demapper(method, constellation=c, hard_out)([y, no])
DemapperCall ==
    /\ pc = "idle"
    /\ demapper # None
    /\ ~demapper.with_prior
    /\ \E points \in {Constellation_call(constellation)} :
           \E y \in SampleTensors(points),
              no \in NoiseVariances(points) \cup NonPositiveNoise :
              /\ \A s \in DOMAIN y.data, i \in DOMAIN points.re :
                    ExponentIsWhole(SquaredDist(y.data[s], PointAt(points, i)),
                                    NoMaximum(no, demapper.no_threshold))
              /\ res' = [op |-> "Demapper", in |-> [y |-> y, no |-> no],
                         out |-> Demapper_call(demapper, constellation, y, no)]
    /\ pc' = "done"
    /\ UNCHANGED Objects

NextLLR == SymbolLogits2LLRsCall \/ DemapperCall \/ Return

SpecLLR == InitLLR /\ [][NextLLR]_vars

(***************************************************************************)
(* Claims on SymbolLogits2LLRs.call.                                       *)
(***************************************************************************)
\* the symbol indices whose k-th most significant bit (of K) is v
BitSet(K, k, v) == {i \in 0..Pow2(K)-1 : (i \div 2^(K-1-k)) % 2 = v}

RECURSIVE ExpHistogram(_, _, _)
\* sum over the points i of S of Base^x[i], counted level by level
ExpHistogram(x, S, levels) ==
    IF levels = {} THEN ExpZero
    ELSE LET e == CHOOSE l \in levels : TRUE
         IN  AddPowTimes(ExpHistogram(x, S, levels \ {e}), e,
                         Cardinality({i \in S : x[i] = e}))

\* the reduction of the logits x restricted to the points of S
ReduceOver(method, x, S) ==
    IF method = "app"
    THEN ExpHistogram(x, S, {x[i] : i \in S})
    ELSE AddPow(ExpZero, SetMax({x[i] : i \in S}))

LLRReturned == pc = "done" /\ res.op = "SymbolLogits2LLRs"

\* C1: without prior and without hard_out, SymbolLogits2LLRs.call returns for
\* every bit position k the reduction of the logits over the indices whose
\* bit k is 1 minus the reduction over the indices whose bit k is 0, the
\* reduction being max for "maxlog" and log-sum-exp for "app".
C1_LLRIsOnesMinusZeros ==
    (LLRReturned /\ ~logits2llrs.hard_out) =>
        LET K == logits2llrs.num_bits_per_symbol
        IN  /\ DOMAIN res.out = 0..K-1
            /\ \A k \in 0..K-1 :
                  res.out[k] =
                     LogDiff(ReduceOver(logits2llrs.method, res.in, BitSet(K, k, 1)),
                             ReduceOver(logits2llrs.method, res.in, BitSet(K, k, 0)))

\* "app", K = 2, logits (0, 2, 0, 0): LLR[1] = ln(Base^2 + 1) - ln(2)
C1_Witness ==
    /\ LLRReturned
    /\ ~logits2llrs.hard_out
    /\ logits2llrs.method = "app"
    /\ logits2llrs.num_bits_per_symbol = 2
    /\ res.in = [i \in 0..3 |-> IF i = 1 THEN 2 ELSE 0]
    /\ res.out[1] = LogDiff(AddPow(AddPow(ExpZero, 2), 0),
                            AddPowTimes(ExpZero, 0, 2))
    /\ ExpGt(res.out[1].num, res.out[1].den)
    /\ ExpGt(res.out[0].den, res.out[0].num)

DemapperReturned == pc = "done" /\ res.op = "Demapper"

PointsEqualTo(points, y) ==
    {i \in DOMAIN points.re : PointAt(points, i) = y}

\* C2: when a received sample equals constellation point i and the noise
\* variance is small and positive, the Demapper output for bit k of that
\* sample is an LLR > 0 exactly when bit k of the label of i is 1 and, with
\* hard_out, is that bit itself; for K = 4 and the point labelled 0000 all
\* four LLRs are negative.
C2_DemapperSignIsLabelBit ==
    DemapperReturned =>
        LET points == Value(Constellation_call(constellation))
            K == constellation.num_bits_per_symbol
            a == LabelArray(K)
            y == res.in.y
        IN  /\ res.out.shape = <<y.shape[1] * K>>
            /\ \A s \in DOMAIN y.data :
                  \A i \in PointsEqualTo(points, y.data[s]) :
                     \A k \in 0..K-1 :
                        LET out == res.out.data[s*K + k]
                        IN  IF demapper.logits2llrs.hard_out
                            THEN out = a[i][k]
                            ELSE /\ ExpGt(out.num, out.den) <=> a[i][k] = 1
                                 /\ ExpGt(out.den, out.num) <=> a[i][k] = 0

\* 16-QAM, "app", soft output, the first sample on the point labelled 0000:
\* its four LLRs are all negative
C2_Witness ==
    /\ DemapperReturned
    /\ constellation.constellation_type = "qam"
    /\ constellation.num_bits_per_symbol = 4
    /\ demapper.logits2llrs.method = "app"
    /\ ~demapper.logits2llrs.hard_out
    /\ res.in.y.data[0] = PointAt(Constellation_call(constellation), 0)
    /\ LabelArray(4)[0] = [k \in 0..3 |-> 0]
    /\ \A k \in 0..3 : ExpGt(res.out.data[k].den, res.out.data[k].num)

(***************************************************************************)
(* QAM2PAM and PAM2QAM.  num_bits_per_symbol K is even, as for a QAM.      *)
(***************************************************************************)
\* base = [2**i for i in range(n-1, -1, -1)]
DescendingBase(n) == [j \in 0..n-1 |-> 2^(n-1-j)]

\* np.sum(b * base)
WeightedSum(b, base) == ArraySum([j \in DOMAIN base |-> b[j] * base[j]])

\* a QAM2PAM whose two tables are exchanged
QAM2PAM_init_exchanged(K) ==
    LET base == DescendingBase(K \div 2)
    IN  [pam1_ind |-> Array([i \in 0..Pow2(K)-1 |->
                         WeightedSum(Slice2(BitArray(i, K), 1), base)]),
         pam2_ind |-> Array([i \in 0..Pow2(K)-1 |->
                         WeightedSum(Slice2(BitArray(i, K), 0), base)])]

QAM2PAM_init(K) ==
    LET base == DescendingBase(K \div 2)
    IN  [pam1_ind |-> Array([i \in 0..Pow2(K)-1 |->
                         WeightedSum(Slice2(BitArray(i, K), 0), base)]),
         pam2_ind |-> Array([i \in 0..Pow2(K)-1 |->
                         WeightedSum(Slice2(BitArray(i, K), 1), base)])]

\* QAM2PAM.__call__
QAM2PAM_call(self, ind_qam) ==
    [pam1 |-> tf_gather(self.pam1_ind, ind_qam),
     pam2 |-> tf_gather(self.pam2_ind, ind_qam)]

\* the bits b with b[0::2] = b2 and b[1::2] = b1, the two halves exchanged
InterleaveExchanged(b1, b2) ==
    [p \in 0..2*Cardinality(DOMAIN b1)-1 |->
        IF p % 2 = 0 THEN b2[p \div 2] ELSE b1[p \div 2]]

\* the bits b with b[0::2] = b1 and b[1::2] = b2
Interleave(b1, b2) ==
    [p \in 0..2*Cardinality(DOMAIN b1)-1 |->
        IF p % 2 = 0 THEN b1[p \div 2] ELSE b2[p \div 2]]

PAM2QAM_init(K, hard_in_out) ==
    LET num_pam_symbols == Pow2(K \div 2)
        base == DescendingBase(K)
    IN  [qam_ind |->
            Array([i \in 0..num_pam_symbols-1 |->
               Array([j \in 0..num_pam_symbols-1 |->
                  WeightedSum(Interleave(BitArray(i, K \div 2),
                                         BitArray(j, K \div 2)), base)])]),
         hard_in_out |-> hard_in_out]

\* sionna.utils.flatten_last_dims(t): the last two dimensions become one,
\* the elements keep their row-major order
flatten_last_dims(t) ==
    LET rank == Len(t.shape)
    IN  Tensor(SubSeq(t.shape, 1, rank - 2)
                  \o <<t.shape[rank - 1] * t.shape[rank]>>, t.data)

\* tf.expand_dims(pam1, -1) + tf.expand_dims(pam2, -2) for two tensors of
\* one shape [..., n]: the tensor [..., n, n] of all sums of two logits
OuterSum(pam1, pam2) ==
    LET rank == Len(pam1.shape)
        n == pam1.shape[rank]
    IN  Tensor(pam1.shape \o <<n>>,
               [x \in 0..Size(pam1)*n - 1 |->
                   pam1.data[x \div n] + pam2.data[(x \div (n*n))*n + (x % n)]])

\* tf.gather(logits, gather_ind, axis=-1)
GatherLast(logits, gather_ind) ==
    LET rank == Len(logits.shape)
        n == logits.shape[rank]
        m == Cardinality(DOMAIN gather_ind)
    IN  Tensor(SubSeq(logits.shape, 1, rank - 1) \o <<m>>,
               [x \in 0..(Size(logits) \div n)*m - 1 |->
                   logits.data[(x \div m)*n + gather_ind[(x % m)]]])

\* tf.reshape(self._qam_ind, [-1])
FlatTable(table) ==
    LET n == Cardinality(DOMAIN table)
    IN  [x \in 0..n*n-1 |-> table[x \div n][x % n]]

\* PAM2QAM.__call__: indices in hard mode, logits otherwise
PAM2QAM_call(self, pam1, pam2) ==
    IF self.hard_in_out
    THEN LET shape == pam1.shape
             ind_pam1 == tf_reshape_infer(pam1, <<1>>)
             ind_pam2 == tf_reshape_infer(pam2, <<1>>)
         IN  IF ind_pam1.shape # ind_pam2.shape THEN Error
             ELSE LET ind_qam == [r \in 0..ind_pam1.shape[1]-1 |->
                          self.qam_ind[ind_pam1.data[r]][ind_pam2.data[r]]]
                  IN  Tensor(shape, ind_qam)
    ELSE LET logits_mat == OuterSum(pam1, pam2)
             logits == flatten_last_dims(logits_mat)
             gather_ind == FlatTable(self.qam_ind)
         IN  GatherLast(logits, gather_ind)

(***************************************************************************)
(* A QAM2PAM and a PAM2QAM of one even num_bits_per_symbol.                *)
(***************************************************************************)
MaxKPamQam == 8

\* the tensors [n] of n consecutive symbol indices out of num_symbols, from
\* any first index
IndexTensors(num_symbols) ==
    {Tensor(<<n>>, [s \in 0..n-1 |-> (first + s) % num_symbols]) :
        n \in 1..MaxSamples, first \in 0..num_symbols-1}

\* the tensors [num_symbols] of logits with at most one non-zero logit
PamLogits(num_symbols) ==
    {Tensor(<<num_symbols>>, v) : v \in HotVectors(num_symbols, 1)}

InitPamQam ==
    /\ \E K \in {k \in 2..MaxKPamQam : k % 2 = 0}, hard_in_out \in BOOLEAN :
          /\ qam2pam = QAM2PAM_init(K)
          /\ pam2qam = PAM2QAM_init(K, hard_in_out)
    /\ constellation = None
    /\ mapper = None
    /\ demapper = None
    /\ logits2llrs = None
    /\ llrs2logits = None
    /\ inds2bits = None
    /\ symboldemapper = None
    /\ pc = "idle"
    /\ res = None

\* pam1, pam2 = QAM2PAM(K)(ind_qam)
QAM2PAMCall ==
    /\ pc = "idle"
    /\ qam2pam # None
    /\ \E ind_qam \in IndexTensors(Cardinality(DOMAIN qam2pam.pam1_ind)) :
          res' = [op |-> "QAM2PAM", in |-> ind_qam,
                  out |-> QAM2PAM_call(qam2pam, ind_qam)]
    /\ pc' = "done"
    /\ UNCHANGED Objects

\* ind_qam = PAM2QAM(K)(pam1, pam2), the pair a QAM2PAM call returned
QAM2PAMThenPAM2QAM ==
    /\ pc = "done"
    /\ res.op = "QAM2PAM"
    /\ pam2qam.hard_in_out
    /\ res' = [op |-> "QAM2PAMThenPAM2QAM", in |-> res.in, via |-> res.out,
               out |-> PAM2QAM_call(pam2qam, res.out.pam1, res.out.pam2)]
    /\ pc' = "done"
    /\ UNCHANGED Objects

\* logits = PAM2QAM(K, hard_in_out=False)(pam1, pam2)
PAM2QAMSoftCall ==
    /\ pc = "idle"
    /\ pam2qam # None
    /\ ~pam2qam.hard_in_out
    /\ \E pam1 \in PamLogits(Cardinality(DOMAIN pam2qam.qam_ind)),
          pam2 \in PamLogits(Cardinality(DOMAIN pam2qam.qam_ind)) :
          res' = [op |-> "PAM2QAM", in |-> [pam1 |-> pam1, pam2 |-> pam2],
                  out |-> PAM2QAM_call(pam2qam, pam1, pam2)]
    /\ pc' = "done"
    /\ UNCHANGED Objects

NextPamQam ==
    QAM2PAMCall \/ QAM2PAMThenPAM2QAM \/ PAM2QAMSoftCall \/ Return

SpecPamQam == InitPamQam /\ [][NextPamQam]_vars

(***************************************************************************)
(* Claims on QAM2PAM and PAM2QAM.                                          *)
(***************************************************************************)
\* C9: in soft mode PAM2QAM returns, for every even K, a vector whose entry
\* at QAM index q is pam1_logit[i] + pam2_logit[j] with (i, j) the pair
\* QAM2PAM gives for q.
C9_SoftEntryIsSumOfSplit ==
    (pc = "done" /\ res.op = "PAM2QAM") =>
        \A q \in DOMAIN qam2pam.pam1_ind :
            res.out.data[q] = res.in.pam1.data[qam2pam.pam1_ind[q]]
                                + res.in.pam2.data[qam2pam.pam2_ind[q]]

\* C10: PAM2QAM in hard mode, applied to the pair QAM2PAM returns for QAM
\* indices, returns those indices.
C10_SplitThenCombineRoundTrip ==
    (pc = "done" /\ res.op = "QAM2PAMThenPAM2QAM") => res.out = res.in

\* K = 6, q = 38 = 100110: split into (101, 010) = (5, 2), combined to 38
C10_Witness ==
    /\ pc = "done"
    /\ res.op = "QAM2PAMThenPAM2QAM"
    /\ Cardinality(DOMAIN qam2pam.pam1_ind) = 64
    /\ res.in.data[0] = 38
    /\ res.via.pam1.data[0] = 5
    /\ res.via.pam2.data[0] = 2
    /\ res.out.data[0] = 38

(***************************************************************************)
(* The layers that hold a table of bit labels, built for one               *)
(* num_bits_per_symbol: a SymbolLogits2LLRs, an LLRs2SymbolLogits, a       *)
(* SymbolInds2Bits and a Mapper on a PAM constellation.                    *)
(***************************************************************************)
MaxKTables == 7

InitTables ==
    /\ \E K \in 1..MaxKTables, method \in Methods, with_prior \in BOOLEAN :
          /\ logits2llrs = SymbolLogits2LLRs_init(method, K, FALSE, with_prior)
          /\ llrs2logits = LLRs2SymbolLogits_init(K, FALSE)
          /\ inds2bits = SymbolInds2Bits_init(K)
          /\ symboldemapper = None
          /\ constellation = Constellation_init("pam", K, None, TRUE, FALSE, FALSE)
          /\ mapper = Mapper_init("None", {K}, constellation, TRUE)
    /\ demapper = None
    /\ qam2pam = None
    /\ pam2qam = None
    /\ pc = "idle"
    /\ res = None

\* bits = SymbolInds2Bits(K)(symbol_ind)
SymbolInds2BitsCall ==
    /\ pc = "idle"
    /\ inds2bits # None
    /\ \E symbol_ind \in IndexTensors(Cardinality(DOMAIN inds2bits.bit_labels)) :
          res' = [op |-> "SymbolInds2Bits", in |-> symbol_ind,
                  out |-> SymbolInds2Bits_call(inds2bits, symbol_ind)]
    /\ pc' = "done"
    /\ UNCHANGED Objects

NextTables == SymbolInds2BitsCall \/ Return

SpecTables == InitTables /\ [][NextTables]_vars

(***************************************************************************)
(* Claims on the tables of bit labels.                                     *)
(***************************************************************************)
\* the set of the entries of column k of an index table
ColumnSet(c, k) == {c[r][k] : r \in DOMAIN c}

\* C7: for every K and bit position k, the entries of column k of c0 and
\* those of column k of c1 are disjoint, each column has exactly 2^(K-1)
\* distinct entries, and together they are exactly 0..2^K-1.
C7_IndexTablesPartition ==
    logits2llrs # None =>
        LET K == logits2llrs.num_bits_per_symbol
            c0 == logits2llrs.c0
            c1 == logits2llrs.c1
        IN  /\ DOMAIN c0 = 0..Pow2(K-1)-1
            /\ DOMAIN c1 = 0..Pow2(K-1)-1
            /\ \A k \in 0..K-1 :
                  /\ ColumnSet(c0, k) \cap ColumnSet(c1, k) = {}
                  /\ Cardinality(ColumnSet(c0, k)) = Pow2(K-1)
                  /\ Cardinality(ColumnSet(c1, k)) = Pow2(K-1)
                  /\ ColumnSet(c0, k) \cup ColumnSet(c1, k) = 0..Pow2(K)-1

\* K = 3, bit position 1: the zeros are {0, 1, 4, 5}, the ones {2, 3, 6, 7}
C7_Witness ==
    /\ logits2llrs # None
    /\ logits2llrs.num_bits_per_symbol = 3
    /\ ColumnSet(logits2llrs.c0, 1) = {0, 1, 4, 5}
    /\ ColumnSet(logits2llrs.c1, 1) = {2, 3, 6, 7}

TablesBuilt ==
    /\ logits2llrs # None
    /\ llrs2logits # None
    /\ inds2bits # None
    /\ mapper # None

\* C8: for every K, symbol index i and bit position k, i is in column k of
\* c1 of SymbolLogits2LLRs iff the k-th most significant of the K bits of i
\* is 1 (column k of c1 is the set of those i, column k of c0 the rest), iff SymbolInds2Bits' label [i][k] is 1, iff the signed label [i][k]
\* of LLRs2SymbolLogits (and of SymbolLogits2LLRs with prior) is +1, and -1
\* otherwise; the Mapper weighs that bit by 2^(K-1-k), so that the weighted
\* bits of label i add up to i.
C8_OneBitLabelling ==
    TablesBuilt =>
        LET K == logits2llrs.num_bits_per_symbol
        IN  /\ llrs2logits.num_bits_per_symbol = K
            /\ DOMAIN inds2bits.bit_labels = 0..Pow2(K)-1
            /\ DOMAIN llrs2logits.a = 0..Pow2(K)-1
            /\ DOMAIN mapper.binary_base = 0..K-1
            /\ \A k \in 0..K-1 : mapper.binary_base[k] = 2^(K-1-k)
            /\ \A k \in 0..K-1 :
                  /\ ColumnSet(logits2llrs.c1, k) = BitSet(K, k, 1)
                  /\ ColumnSet(logits2llrs.c0, k) = BitSet(K, k, 0)
            /\ \A i \in 0..Pow2(K)-1 :
                  /\ WeightedSum(inds2bits.bit_labels[i], mapper.binary_base) = i
                  /\ \A k \in 0..K-1 :
                        LET msb == (i \div 2^(K-1-k)) % 2
                        IN  /\ inds2bits.bit_labels[i][k] = msb
                            /\ llrs2logits.a[i][k] = 2*msb - 1
                            /\ logits2llrs.with_prior =>
                                  logits2llrs.a[i][k] = 2*msb - 1

\* K = 3, symbol index 6 = 110: in c1 at positions 0 and 1, in c0 at position
\* 2, labelled (1, 1, 0) by SymbolInds2Bits and (+1, +1, -1) by
\* LLRs2SymbolLogits, weighted (4, 2, 1) by the Mapper
C8_Witness ==
    /\ TablesBuilt
    /\ logits2llrs.num_bits_per_symbol = 3
    /\ pc = "done"
    /\ res.op = "SymbolInds2Bits"
    /\ res.in.data[0] = 6
    /\ res.out.data[0] = 1 /\ res.out.data[1] = 1 /\ res.out.data[2] = 0
    /\ 6 \in ColumnSet(logits2llrs.c1, 0)
    /\ 6 \in ColumnSet(logits2llrs.c1, 1)
    /\ 6 \in ColumnSet(logits2llrs.c0, 2)
    /\ llrs2logits.a[6] = [k \in 0..2 |-> IF k = 2 THEN -1 ELSE 1]
    /\ mapper.binary_base = [k \in 0..2 |-> IF k = 0 THEN 4 ELSE IF k = 1 THEN 2 ELSE 1]

(***************************************************************************)
(* Construction of a QAM or PAM Constellation from its arguments.          *)
(***************************************************************************)
MaxKConstellation == 8

\* how far below 1 the requested num_bits_per_symbol goes
MaxInvalidK == 2

\* the largest coordinate of the first point and of the step of a vector of
\* custom points
MaxCoord == 1

\* the longest initial_value
MaxInitialLen == 4

\* the largest num_bits_per_symbol of a constellation that is trainable or
\* drawn at random
MaxKCustom == 2

\* the vectors of n points (a + i*t) / sqrt(vn/vd), i = 0..n-1: distinct
\* points, in general neither centered nor of unit power
Progressions(n, vn, vd) ==
    {[re |-> [i \in 0..n-1 |-> a[1] + i*t[1]],
      im |-> [i \in 0..n-1 |-> a[2] + i*t[2]],
      vn |-> vn, vd |-> vd] :
        a \in (0..MaxCoord) \X (0..MaxCoord),
        t \in ((0..MaxCoord) \X (0..MaxCoord)) \ {<<0, 0>>}}

\* the initial_value arguments: absent, or a tensor of rank 1 or 2 of points
InitialValues ==
    {None} \cup
    UNION {{[shape |-> shape, points |-> x] : x \in Progressions(SeqProduct(shape), 1, 1)} :
              shape \in {<<n>> : n \in 1..MaxInitialLen} \cup {<<2, 1>>}}

\* config.tf_rng.uniform([2, 2**K], minval=-0.05, maxval=0.05) as complex
\* points: every coordinate is below 1/21 in magnitude
tf_rng_uniform(K) ==
    LET s == 21 * 2^K * MaxCoord
    IN  Progressions(2^K, s * s, 1)

\* the objects Constellation(constellation_type, K, initial_value, normalize,
\* center, trainable, dtype) can leave: one for each draw of the points
Constellation_outcomes(constellation_type, K, initial_value, normalize, center, trainable, dtype) ==
    LET c == Constellation_dtype(
                 Constellation_init(constellation_type, K, initial_value,
                                    normalize, center, trainable), dtype)
    IN  IF c = Error THEN {Error}
        ELSE IF c.points = None
        THEN {[c EXCEPT !.points = Canon(u)] : u \in tf_rng_uniform(K)}
        ELSE {c}

\* a value passed to a flag setter: a bool, or something else with a truth
SetterValues == [is_bool : BOOLEAN, truth : BOOLEAN]

\* a setter that stores the value before it checks it
normalize_setter_unchecked(self, value) ==
    [self |-> [self EXCEPT !.normalize = value.truth],
     out |-> IF value.is_bool THEN None ELSE Error]

\* Constellation.normalize = value: the object afterwards and the outcome
normalize_setter(self, value) ==
    IF ~value.is_bool THEN [self |-> self, out |-> Error]
    ELSE [self |-> [self EXCEPT !.normalize = value.truth], out |-> None]

\* Constellation.center = value
center_setter(self, value) ==
    IF ~value.is_bool THEN [self |-> self, out |-> Error]
    ELSE [self |-> [self EXCEPT !.center = value.truth], out |-> None]

\* the values an optimizer step can leave in the trainable points: the
\* vectors of points that start at the origin
AssignedPoints(x) ==
    {p \in Progressions(Cardinality(DOMAIN x.re), 1, 1) :
        p.re[0] = 0 /\ p.im[0] = 0}

InitConstellation ==
    /\ constellation = None
    /\ mapper = None
    /\ demapper = None
    /\ logits2llrs = None
    /\ llrs2logits = None
    /\ qam2pam = None
    /\ pam2qam = None
    /\ inds2bits = None
    /\ symboldemapper = None
    /\ pc = "idle"
    /\ res = None

\* c = Constellation(constellation_type, num_bits_per_symbol, initial_value,
\*                   normalize, center, trainable, dtype); a failed
\* construction leaves no object
ConstellationCreate ==
    /\ pc = "idle"
    /\ constellation = None
    /\ \E ctype \in ConstellationTypes \cup {"custom", "psk"},
          K \in (1 - MaxInvalidK)..MaxKConstellation,
          initial_value \in InitialValues,
          normalize \in BOOLEAN, center \in BOOLEAN, trainable \in BOOLEAN,
          dtype \in ComplexDtypes :
          /\ trainable \/ (ctype = "custom" /\ initial_value = None)
                => K <= MaxKCustom
          /\ \E c \in Constellation_outcomes(ctype, K, initial_value, normalize,
                                             center, trainable, dtype) :
                /\ res' = [op |-> "Constellation",
                           in |-> [constellation_type |-> ctype,
                                   num_bits_per_symbol |-> K,
                                   initial_value |-> initial_value,
                                   normalize |-> normalize,
                                   center |-> center,
                                   trainable |-> trainable,
                                   dtype |-> dtype],
                           out |-> c]
                /\ constellation' = IF c = Error THEN None ELSE c
    /\ pc' = "done"
    /\ UNCHANGED <<mapper, demapper, logits2llrs, llrs2logits, qam2pam,
                   pam2qam, inds2bits, symboldemapper>>

\* the caller drops a failed construction's arguments, or the object
ConstellationDrop ==
    /\ pc = "done"
    /\ res.op = "Constellation"
    /\ pc' = "idle"
    /\ res' = None
    /\ constellation' = None
    /\ UNCHANGED <<mapper, demapper, logits2llrs, llrs2logits, qam2pam,
                   pam2qam, inds2bits, symboldemapper>>

\* constellation.normalize = value
SetNormalize ==
    /\ pc = "idle"
    /\ constellation # None
    /\ \E value \in SetterValues :
          \E r \in {normalize_setter(constellation, value)} :
             /\ constellation' = r.self
             /\ res' = [op |-> "normalize", in |-> value, out |-> r.out]
    /\ pc' = "done"
    /\ UNCHANGED <<mapper, demapper, logits2llrs, llrs2logits, qam2pam,
                   pam2qam, inds2bits, symboldemapper>>

\* constellation.center = value
SetCenter ==
    /\ pc = "idle"
    /\ constellation # None
    /\ \E value \in SetterValues :
          \E r \in {center_setter(constellation, value)} :
             /\ constellation' = r.self
             /\ res' = [op |-> "center", in |-> value, out |-> r.out]
    /\ pc' = "done"
    /\ UNCHANGED <<mapper, demapper, logits2llrs, llrs2logits, qam2pam,
                   pam2qam, inds2bits, symboldemapper>>

\* an optimizer assigns new values to the points of a trainable constellation
AssignPoints ==
    /\ pc = "idle"
    /\ constellation # None
    /\ constellation.trainable
    /\ \E x \in AssignedPoints(constellation.points) :
          /\ constellation' = [constellation EXCEPT !.points = Canon(x)]
          /\ res' = [op |-> "assign", in |-> x, out |-> None]
    /\ pc' = "done"
    /\ UNCHANGED <<mapper, demapper, logits2llrs, llrs2logits, qam2pam,
                   pam2qam, inds2bits, symboldemapper>>

\* x = constellation.points
ReadPoints ==
    /\ pc = "idle"
    /\ constellation # None
    /\ res' = [op |-> "points", in |-> None,
               out |-> Constellation_call(constellation)]
    /\ pc' = "done"
    /\ UNCHANGED Objects

\* the num_bits_per_symbol arguments of create_or_check_constellation
OptionalK == {NoInt} \cup {{k} : k \in 1..MaxKCustom + 1}

\* c = Constellation.create_or_check_constellation(constellation_type,
\*         num_bits_per_symbol, constellation, dtype), with the object at
\* hand or without one
CreateOrCheck ==
    /\ pc = "idle"
    /\ \E ctype \in ConstellationTypes \cup {"custom", "None"},
          K \in OptionalK, c \in {None, constellation},
          dtype \in ComplexDtypes :
          res' = [op |-> "create_or_check_constellation",
                  in |-> [constellation_type |-> ctype,
                          num_bits_per_symbol |-> K,
                          constellation |-> c,
                          dtype |-> dtype],
                  out |-> create_or_check_constellation(ctype, K, c, dtype)]
    /\ pc' = "done"
    /\ UNCHANGED Objects

NextConstellation ==
    \/ ConstellationCreate
    \/ ConstellationDrop
    \/ SetNormalize
    \/ SetCenter
    \/ AssignPoints
    \/ ReadPoints
    \/ CreateOrCheck
    \/ Return

SpecConstellation == InitConstellation /\ [][NextConstellation]_vars

(***************************************************************************)
(* Claims on the construction of QAM and PAM constellations.               *)
(***************************************************************************)
ConstellationReturned == pc = "done" /\ res.op = "Constellation"

\* C20: the construction fails, and leaves no Constellation object, when the
\* type is "qam" and K is odd or K <= 0, when the type is "pam" and K <= 0,
\* and for both types when an initial_value is supplied.
C20_InvalidRequestsRejected ==
    ConstellationReturned =>
        LET K == res.in.num_bits_per_symbol
            invalid ==
               \/ res.in.constellation_type = "qam" /\ (K % 2 # 0 \/ K <= 0)
               \/ res.in.constellation_type = "pam" /\ K <= 0
               \/ res.in.constellation_type \in {"qam", "pam"}
                     /\ res.in.initial_value # None
        IN  invalid => (res.out = Error /\ constellation = None)

\* a QAM request with K = 3, and a PAM request with an initial value, failed
C20_Witness ==
    /\ ConstellationReturned
    /\ res.out = Error
    /\ constellation = None
    /\ \/ res.in.constellation_type = "qam" /\ res.in.num_bits_per_symbol = 3
             /\ res.in.initial_value = None
       \/ res.in.constellation_type = "pam" /\ res.in.num_bits_per_symbol = 1
             /\ res.in.initial_value # None

\* a construction of type ctype with the given normalize flag succeeded
Constructed(ctype, normalize) ==
    /\ ConstellationReturned
    /\ res.out # Error
    /\ res.in.constellation_type = ctype
    /\ res.in.normalize = normalize

\* the label bits of index q at the positions first, first+2, first+4, ...
EveryOtherBit(q, K, first) ==
    [j \in 0..(K \div 2)-1 |-> BitArray(q, K)[2*j + first]]

\* C11: for every even K and QAM index q, the unnormalized QAM point q has
\* real part pam_gray(even-position label bits) and imaginary part
\* pam_gray(odd-position label bits), which are the unnormalized PAM(K/2)
\* points at the indices pam1 and pam2 that QAM2PAM gives for q.
C11_QamPointIsTwoPamPoints ==
    Constructed("qam", FALSE) =>
        LET K == res.in.num_bits_per_symbol
            c == res.out.points
        IN  \A split \in {QAM2PAM_init(K)}, p \in {pam(K \div 2, FALSE)} :
               /\ c.vn = c.vd
               /\ p.vn = p.vd
               /\ DOMAIN c.re = 0..Pow2(K)-1
               /\ \A q \in 0..Pow2(K)-1 :
                     /\ c.re[q] = pam_gray(EveryOtherBit(q, K, 0))
                     /\ c.im[q] = pam_gray(EveryOtherBit(q, K, 1))
                     /\ c.re[q] = p.re[split.pam1_ind[q]]
                     /\ c.im[q] = p.re[split.pam2_ind[q]]
                     /\ p.im[split.pam1_ind[q]] = 0

\* K = 4, q = 6 = 0110: even bits 01, odd bits 10, the point 3 - 1j, made of
\* the PAM points 1 (value 3) and 2 (value -1)
C11_Witness ==
    /\ Constructed("qam", FALSE)
    /\ res.in.num_bits_per_symbol = 4
    /\ res.out.points.re[6] = 3
    /\ res.out.points.im[6] = 0 - 1
    /\ QAM2PAM_init(4).pam1_ind[6] = 1
    /\ QAM2PAM_init(4).pam2_ind[6] = 2
    /\ pam(2, FALSE).re[1] = 3
    /\ pam(2, FALSE).re[2] = 0 - 1

\* the odd integers -(2^n - 1), ..., -1, 1, ..., 2^n - 1
OddIntegers(n) == {2*i + 1 - 2^n : i \in 0..2^n - 1}

\* C12: for every n >= 1 the unnormalized PAM point of the bit vector b is
\* (1 - 2*b[0]) * (2^(n-1) - the PAM(n-1) point of b[1:]), and 1 - 2*b[0]
\* for n = 1; the 2^n bit vectors are mapped one-to-one onto the odd
\* integers -(2^n - 1), ..., 2^n - 1.
C12_PamGrayRecursionAndBijection ==
    Constructed("pam", FALSE) =>
        LET n == res.in.num_bits_per_symbol
            c == res.out.points
        IN  /\ c.vn = c.vd
            /\ DOMAIN c.re = 0..Pow2(n)-1
            /\ {c.re[i] : i \in DOMAIN c.re} = OddIntegers(n)
            /\ \A i, j \in DOMAIN c.re : c.re[i] = c.re[j] => i = j
            /\ \A i \in DOMAIN c.im : c.im[i] = 0
            /\ IF n = 1
               THEN \A i \in 0..1 : c.re[i] = 1 - 2*i
               ELSE \A shorter \in {pam(n - 1, FALSE)} :
                       \A i \in 0..Pow2(n)-1 :
                          LET b0 == i \div Pow2(n-1)
                              tail == i % Pow2(n-1)
                          IN  c.re[i] = (1 - 2*b0)
                                          * (2^(n-1) - shorter.re[tail])

\* n = 3: the bit vectors 000 .. 111 are mapped to 3, 1, 5, 7, -3, -1, -5, -7
C12_Witness ==
    /\ Constructed("pam", FALSE)
    /\ res.in.num_bits_per_symbol = 3
    /\ res.out.points.re = ArrayOfSeq(<<3, 1, 5, 7, 0-3, 0-1, 0-5, 0-7>>)

\* the number of bit positions at which the K-bit labels of i and j differ
LabelDistance(i, j, K) ==
    Cardinality({k \in 0..K-1 : BitArray(i, K)[k] # BitArray(j, K)[k]})

\* C13: Gray labelling.  In every PAM constellation two labels whose
\* unnormalized points differ by exactly 2 differ in exactly one bit, and in
\* every QAM constellation two indices whose unnormalized points are nearest
\* neighbours on the grid (2 apart along one axis, equal along the other)
\* have labels that differ in exactly one bit.
C13_GrayNeighboursDifferInOneBit ==
    /\ Constructed("pam", FALSE) =>
          LET K == res.in.num_bits_per_symbol
              c == res.out.points
          IN  \A i, j \in DOMAIN c.re :
                 Abs(c.re[i] - c.re[j]) = 2 => LabelDistance(i, j, K) = 1
    /\ Constructed("qam", FALSE) =>
          LET K == res.in.num_bits_per_symbol
              c == res.out.points
          IN  \A i, j \in DOMAIN c.re :
                 (\/ Abs(c.re[i] - c.re[j]) = 2 /\ c.im[i] = c.im[j]
                  \/ Abs(c.im[i] - c.im[j]) = 2 /\ c.re[i] = c.re[j])
                    => LabelDistance(i, j, K) = 1

\* 16-QAM: the points 1 + 1j (index 0, label 0000) and 3 + 1j (index 2,
\* label 0010) are neighbours and differ in one bit
C13_Witness ==
    /\ Constructed("qam", FALSE)
    /\ res.in.num_bits_per_symbol = 4
    /\ res.out.points.re[0] = 1 /\ res.out.points.im[0] = 1
    /\ res.out.points.re[2] = 3 /\ res.out.points.im[2] = 1
    /\ LabelDistance(0, 2, 4) = 1

\* the sum over the points of x of re^2 + im^2, on the integer scale of x
SumSquaredMagnitudes(x) ==
    ArraySum([i \in DOMAIN x.re |-> x.re[i]*x.re[i] + x.im[i]*x.im[i]])

\* sum_{i=1..m} (2i-1)^2
ClosedFormSum(m) == ArraySum([i \in 0..m-1 |-> (2*(i+1) - 1) * (2*(i+1) - 1)])

\* C14: the closed-form energy equals the mean squared magnitude of the
\* unnormalized points, (1/2^(n-2)) * sum_{i=1..2^(n-1)} (2i-1)^2 with
\* n = K/2 for QAM and (1/2^(n-1)) * the same sum with n = K for PAM (both
\* sides multiplied out), and the points generated with normalize=True have
\* mean power 1.
C14_ClosedFormEnergyIsMeanPower ==
    /\ Constructed("qam", TRUE) =>
          LET K == res.in.num_bits_per_symbol
              n == K \div 2
              c == res.out.points
          IN  \A raw \in {qam(K, FALSE)} :
                 /\ raw.vn = raw.vd
                 /\ 4 * ClosedFormSum(2^(n-1)) * 2^K
                       = 2^n * SumSquaredMagnitudes(raw)
                 /\ SumSquaredMagnitudes(c) * c.vd = 2^K * c.vn
    /\ Constructed("pam", TRUE) =>
          LET n == res.in.num_bits_per_symbol
              c == res.out.points
          IN  \A raw \in {pam(n, FALSE)} :
                 /\ raw.vn = raw.vd
                 /\ 2 * ClosedFormSum(2^(n-1)) * 2^n
                       = 2^n * SumSquaredMagnitudes(raw)
                 /\ SumSquaredMagnitudes(c) * c.vd = 2^n * c.vn

\* 16-QAM with normalize=True: the points (re + j*im) / sqrt(10), whose
\* squared magnitudes add up to 16
C14_Witness ==
    /\ Constructed("qam", TRUE)
    /\ res.in.num_bits_per_symbol = 4
    /\ res.out.points.vn = 10
    /\ res.out.points.vd = 1
    /\ SumSquaredMagnitudes(res.out.points) = 160

QpskGenerated ==
    Constructed("qam", TRUE) /\ res.in.num_bits_per_symbol = 2

\* C16 (as stated): qam(2, normalize=True) returns 4 points, one in each
\* quadrant, all of squared magnitude 1/2 (magnitude 1/sqrt(2)).
C16_QpskMagnitudeIsInverseSqrt2 ==
    QpskGenerated =>
        LET c == res.out.points
        IN  /\ DOMAIN c.re = 0..3
            /\ \A i \in 0..3 :
                  2 * (c.re[i]*c.re[i] + c.im[i]*c.im[i]) * c.vd = c.vn

\* C16 (amended): qam(2, normalize=True) returns 4 points, one in each
\* quadrant (index 0 = label 00 with both parts positive, a label bit 1
\* making the part of its axis negative), all of magnitude 1; it is each
\* real and each imaginary part that has magnitude 1/sqrt(2).
C16_QpskMagnitudeIsOne ==
    QpskGenerated =>
        LET c == res.out.points
        IN  /\ DOMAIN c.re = 0..3
            /\ \A i \in 0..3 :
                  /\ (c.re[i]*c.re[i] + c.im[i]*c.im[i]) * c.vd = c.vn
                  /\ 2 * c.re[i]*c.re[i] * c.vd = c.vn
                  /\ 2 * c.im[i]*c.im[i] * c.vd = c.vn
                  /\ c.re[i] > 0 <=> i \div 2 = 0
                  /\ c.im[i] > 0 <=> i % 2 = 0

\* the four points (+-1 +- 1j) / sqrt(2)
C16_Witness ==
    /\ QpskGenerated
    /\ res.out.points.re = ArrayOfSeq(<<1, 1, 0-1, 0-1>>)
    /\ res.out.points.im = ArrayOfSeq(<<1, 0-1, 1, 0-1>>)
    /\ res.out.points.vn = 2
    /\ res.out.points.vd = 1

(***************************************************************************)
(* Claims on the point that the all-zero label of 16-QAM is mapped to.     *)
(***************************************************************************)
\* the Mapper of a 16-QAM returned the symbol of the four bits 0, 0, 0, 0
Mapped0000 ==
    /\ MapperReturned
    /\ constellation.constellation_type = "qam"
    /\ constellation.num_bits_per_symbol = 4
    /\ res.in = Tensor(<<1, 4>>, [x \in 0..3 |-> 0])

\* C15 (as stated): for 16-QAM the bits 0, 0, 0, 0 are mapped to the point
\* with the most negative real part and the most negative imaginary part.
C15_ZerosMapToMostNegativePoint ==
    Mapped0000 =>
        \A points \in {Constellation_call(constellation)} :
           \A i \in DOMAIN points.re :
              /\ res.out.x.data[0].re <= points.re[i]
              /\ res.out.x.data[0].im <= points.im[i]

\* C15 (amended): for 16-QAM the bits 0, 0, 0, 0 are mapped to point 0,
\* whose real and imaginary parts are both positive and the smallest
\* positive ones; the point with the most negative real and imaginary parts
\* is point 15, of label 1, 1, 1, 1.
C15_ZerosMapToInnerPositivePoint ==
    Mapped0000 =>
        \A points \in {Constellation_call(constellation)} :
           /\ res.out.x.data[0] = PointAt(points, 0)
           /\ points.re[0] > 0
           /\ points.im[0] > 0
           /\ BitArray(15, 4) = [k \in 0..3 |-> 1]
           /\ \A i \in DOMAIN points.re :
                 /\ points.re[i] > 0 => points.re[0] <= points.re[i]
                 /\ points.im[i] > 0 => points.im[0] <= points.im[i]
                 /\ points.re[15] <= points.re[i]
                 /\ points.im[15] <= points.im[i]

\* normalized 16-QAM: 0000 is mapped to (1 + 1j) / sqrt(10), and point 15 is
\* (-3 - 3j) / sqrt(10)
C15_Witness ==
    /\ Mapped0000
    /\ constellation.normalize
    /\ res.out.x.data[0] = [re |-> 1, im |-> 1, vn |-> 10, vd |-> 1]
    /\ PointAt(Constellation_call(constellation), 15)
          = [re |-> 0 - 3, im |-> 0 - 3, vn |-> 10, vd |-> 1]

(***************************************************************************)
(* Claims on the noise variance that Demapper.call divides by.             *)
(***************************************************************************)
\* max(no, tiny), written out: no when it is at least tiny, else tiny
ClampedNoise(no) ==
    IF no.n > 0 /\ no.n * TinyInverse >= no.d THEN no
    ELSE [n |-> 1, d |-> TinyInverse]

\* C17: Demapper.call divides -|y-c|^2 by max(no, tiny), tiny being the
\* smallest positive normal value of the real precision: the divisor is
\* positive, and a noise variance of 0 or below gives the LLRs of the noise
\* variance tiny and no error.
C17_NoiseClampedToTiny ==
    DemapperReturned =>
        LET K == constellation.num_bits_per_symbol
            y == res.in.y
            used == ClampedNoise(res.in.no)
        IN  /\ used.n > 0
            /\ demapper.no_threshold = [n |-> 1, d |-> TinyInverse]
            /\ res.out # Error
            /\ res.out.shape = <<y.shape[1] * K>>
            /\ \A points \in {Constellation_call(constellation)} :
                  \A s \in DOMAIN y.data :
                     \A llr \in {SymbolLogits2LLRs_call(demapper.logits2llrs,
                                     Exponents(points, y.data[s], used))} :
                        \A k \in 0..K-1 : res.out.data[s*K + k] = llr[k]

\* a call with no = 0 on 16-QAM, the sample on point 0: soft LLRs come back,
\* the first one negative
C17_Witness ==
    /\ DemapperReturned
    /\ res.in.no.n = 0
    /\ constellation.constellation_type = "qam"
    /\ constellation.num_bits_per_symbol = 4
    /\ ~demapper.logits2llrs.hard_out
    /\ res.in.y.data[0] = PointAt(Constellation_call(constellation), 0)
    /\ res.out # Error
    /\ ExpGt(res.out.data[0].den, res.out.data[0].num)

(***************************************************************************)
(* SymbolDemapper.  The exponents are floating-point values: a quotient    *)
(* by a positive divisor is finite, -x/0 is -inf for x > 0 and NaN for     *)
(* x = 0, and none of them raises.                                         *)
(***************************************************************************)
SymbolDemapper_init(constellation_type, K, c, hard_out, with_prior) ==
    LET obj == create_or_check_constellation(constellation_type, K, c, "complex64")
    IN  IF obj = Error THEN Error
        ELSE [hard_out |-> hard_out, with_prior |-> with_prior]

Finite(v) == [cls |-> "finite", v |-> v]
NegInf == [cls |-> "-inf", v |-> 0]
NaN == [cls |-> "nan", v |-> 0]

\* exp = -d**2 / no for one point, no being used as it was passed
FloatExponent(sq, no) ==
    IF no.n = 0 THEN IF sq.n = 0 THEN NaN ELSE NegInf
    ELSE Finite(Exponent(sq, no))

\* a >= b on floating-point values without NaN
FloatGeq(a, b) ==
    \/ b.cls = "-inf"
    \/ a.cls = "finite" /\ b.cls = "finite" /\ a.v >= b.v

\* the indices of the smallest entries
tf_argmin(x) ==
    IF \E i \in DOMAIN x : x[i].cls = "nan" THEN DOMAIN x
    ELSE {i \in DOMAIN x : \A j \in DOMAIN x : FloatGeq(x[j], x[i])}

\* the indices tf.argmax(x, axis=-1) can return: an index of a largest
\* entry, which one among several being left open by tf.argmax, as is the
\* index returned when an entry is NaN
tf_argmax(x) ==
    IF \E i \in DOMAIN x : x[i].cls = "nan" THEN DOMAIN x
    ELSE {i \in DOMAIN x : \A j \in DOMAIN x : FloatGeq(x[i], x[j])}

RECURSIVE FloatSumRange(_, _, _)
\* exp(x[lo]) + ... + exp(x[hi]) over entries without NaN, exp(-inf) = 0
FloatSumRange(x, lo, hi) ==
    IF lo > hi THEN ExpZero
    ELSE IF lo = hi
         THEN IF x[lo].cls = "finite" THEN AddPow(ExpZero, x[lo].v) ELSE ExpZero
    ELSE LET mid == (lo + hi) \div 2
         IN  ExpAdd(FloatSumRange(x, lo, mid), FloatSumRange(x, mid + 1, hi))

\* tf.nn.log_softmax(x, axis=-1): x[i] - logsumexp(x) as ln(num) - ln(den);
\* NaN throughout when an entry is NaN or logsumexp(x) is -inf
log_softmax(x) ==
    IF \/ \E i \in DOMAIN x : x[i].cls = "nan"
       \/ \A i \in DOMAIN x : x[i].cls = "-inf"
    THEN [i \in DOMAIN x |-> [cls |-> "nan", num |-> ExpZero, den |-> ExpZero]]
    ELSE LET den == Value(FloatSumRange(x, 0, Cardinality(DOMAIN x) - 1))
         IN  Array([i \in DOMAIN x |->
                 IF x[i].cls = "finite"
                 THEN [cls |-> "finite", num |-> AddPow(ExpZero, x[i].v),
                       den |-> den]
                 ELSE [cls |-> "-inf", num |-> ExpZero, den |-> den]])

\* the exponents of one received sample over the points
FloatExponents(points, y, no) ==
    Array([i \in DOMAIN points.re |->
              FloatExponent(SquaredDist(y, PointAt(points, i)), no)])

\* the tensors SymbolDemapper.call can return without prior; c is the
\* Constellation the demapper refers to, y a tensor [n] of samples and no a
\* scalar
SymbolDemapper_call(self, c, y, no) ==
    LET points == Value(Constellation_call(c))
        exp == Array([s \in DOMAIN y.data |->
                         FloatExponents(points, y.data[s], no)])
    IN  IF self.hard_out
        THEN {Tensor(y.shape, ind) :
                 ind \in {f \in [DOMAIN y.data -> DOMAIN points.re] :
                             \A s \in DOMAIN y.data : f[s] \in tf_argmax(exp[s])}}
        ELSE {Tensor(y.shape \o <<Cardinality(DOMAIN points.re)>>,
                     Array([s \in DOMAIN y.data |-> log_softmax(exp[s])]))}

(***************************************************************************)
(* A SymbolDemapper on a QAM or PAM constellation, called with samples on  *)
(* and between the points and with noise variances down to zero.           *)
(***************************************************************************)
MaxKSymbol == 2

InitSymbolDemapper ==
    /\ \E ctype \in ConstellationTypes, K \in 1..MaxKSymbol,
          normalize \in BOOLEAN, center \in BOOLEAN, hard_out \in BOOLEAN :
          /\ Constellation_init(ctype, K, None, normalize, center, FALSE) # Error
          /\ constellation =
                Constellation_init(ctype, K, None, normalize, center, FALSE)
          /\ symboldemapper =
                SymbolDemapper_init("None", {K}, constellation, hard_out, FALSE)
    /\ mapper = None
    /\ demapper = None
    /\ logits2llrs = None
    /\ llrs2logits = None
    /\ qam2pam = None
    /\ pam2qam = None
    /\ inds2bits = None
    /\ pc = "idle"
    /\ res = None

\* the tensors [n] of received samples: n consecutive constellation points,
\* all moved by the same 0 or 1 along each axis on the scale of the points
SymbolSamples(points) ==
    LET np == Cardinality(DOMAIN points.re)
    IN  {Tensor(<<n>>, [s \in 0..n-1 |->
                          [re |-> points.re[(first + s) % np] + dre,
                           im |-> points.im[(first + s) % np] + dim,
                           vn |-> points.vn, vd |-> points.vd]]) :
            n \in 1..MaxSamples, first \in 0..np-1, dre \in 0..1, dim \in 0..1}

\* the noise variance 0
ZeroNoise == [n |-> 0, d |-> 1]

\* out = SymbolDemapper(constellation=c, hard_out)([y, no])
SymbolDemapperCall ==
    /\ pc = "idle"
    /\ symboldemapper # None
    /\ ~symboldemapper.with_prior
    /\ \E points \in {Constellation_call(constellation)} :
           \E y \in SymbolSamples(points),
              no \in NoiseVariances(points) \cup {ZeroNoise} :
              /\ no.n > 0 =>
                    \A s \in DOMAIN y.data, i \in DOMAIN points.re :
                       ExponentIsWhole(SquaredDist(y.data[s], PointAt(points, i)), no)
              /\ \E out \in SymbolDemapper_call(symboldemapper, constellation, y, no) :
                    res' = [op |-> "SymbolDemapper", in |-> [y |-> y, no |-> no],
                            out |-> out]
    /\ pc' = "done"
    /\ UNCHANGED Objects

NextSymbolDemapper == SymbolDemapperCall \/ Return

SpecSymbolDemapper == InitSymbolDemapper /\ [][NextSymbolDemapper]_vars

SymbolDemapperReturned == pc = "done" /\ res.op = "SymbolDemapper"

\* the indices of the points nearest to y
NearestIndices(points, y) ==
    LET sq == Array([i \in DOMAIN points.re |-> SquaredDist(y, PointAt(points, i)).n])
    IN  {i \in DOMAIN sq : \A j \in DOMAIN sq : sq[i] <= sq[j]}

\* C18: SymbolDemapper clamps a zero noise variance to a positive minimum
\* before the division, so that with no = 0 every exponent is finite: the
\* hard output is the index of a nearest point and the soft output has no NaN.
C18_ZeroNoiseIsClamped ==
    SymbolDemapperReturned /\ res.in.no.n = 0 =>
        \A points \in {Constellation_call(constellation)} :
           \A s \in DOMAIN res.in.y.data :
              IF symboldemapper.hard_out
              THEN res.out.data[s] \in NearestIndices(points, res.in.y.data[s])
              ELSE \A i \in DOMAIN points.re :
                      res.out.data[s][i].cls = "finite"

FlagChanged ==
    pc = "done" /\ res.op \in {"normalize", "center"} /\ res.out = None

\* C21: a constructed Constellation has exactly 2^K effective points, also
\* after any changes of the normalize and center flags (and of the trainable
\* points); a custom constellation whose initial_value is not a vector of
\* exactly 2^K points is rejected at construction.
C21_AlwaysTwoToTheKPoints ==
    /\ constellation # None =>
          \A x \in {Constellation_call(constellation)} :
             /\ constellation.num_bits_per_symbol > 0
             /\ DOMAIN x.re = 0..2^constellation.num_bits_per_symbol - 1
             /\ DOMAIN x.im = DOMAIN x.re
    /\ ConstellationReturned /\ res.in.constellation_type = "custom"
          /\ res.in.initial_value # None =>
          LET K == res.in.num_bits_per_symbol
              shape == res.in.initial_value.shape
          IN  (K <= 0 \/ SeqProduct(shape) # 2^K \/ Len(shape) # 1)
                 => res.out = Error /\ constellation = None

\* a custom constellation of 4 points whose normalize flag has just been
\* set: its view still has 4 points
C21_Witness ==
    /\ FlagChanged
    /\ res.op = "normalize"
    /\ constellation.constellation_type = "custom"
    /\ constellation.num_bits_per_symbol = 2
    /\ ~constellation.normalize
    /\ constellation.center
    /\ Cardinality(DOMAIN Constellation_call(constellation).re) = 4

CreateOrCheckReturned ==
    pc = "done" /\ res.op = "create_or_check_constellation"

\* C22: create_or_check_constellation returns the constellation it is given,
\* unchanged, exactly when the requested type is absent or "custom", the
\* requested K is absent or the K of the instance, and the dtype is that of
\* the instance, and fails otherwise; given no constellation it constructs a
\* fresh one (normalized, not centered, not trainable, of the dtype asked
\* for) only for the types "qam" and "pam" with K given, and fails otherwise.
C22_CreateOrCheckContract ==
    CreateOrCheckReturned =>
        LET type == res.in.constellation_type
            K == res.in.num_bits_per_symbol
            c == res.in.constellation
        IN  IF c # None
            THEN IF /\ type \in {"None", "custom"}
                    /\ K = NoInt \/ K = {c.num_bits_per_symbol}
                    /\ c.dtype = res.in.dtype
                 THEN res.out = c /\ res.out = constellation
                 ELSE res.out = Error
            ELSE IF type \in {"qam", "pam"} /\ K # NoInt
                 THEN \A k \in K :
                         IF type = "qam" /\ k % 2 # 0 THEN res.out = Error
                         ELSE /\ res.out # Error
                              /\ res.out.constellation_type = type
                              /\ res.out.num_bits_per_symbol = k
                              /\ res.out.dtype = res.in.dtype
                              /\ res.out.normalize /\ ~res.out.center
                              /\ ~res.out.trainable
                              /\ res.out.points =
                                    (IF type = "qam" THEN qam(k, TRUE)
                                                     ELSE pam(k, TRUE))
                 ELSE res.out = Error

\* a custom constellation passed with type "custom", its own K and its own
\* dtype comes back; the same one passed with type "qam" is refused
C22_Witness ==
    /\ CreateOrCheckReturned
    /\ res.in.constellation # None
    /\ res.in.constellation.constellation_type = "custom"
    /\ res.in.constellation_type = "custom"
    /\ res.in.num_bits_per_symbol = {2}
    /\ res.in.dtype = "complex128"
    /\ res.out = res.in.constellation

PointsRead == pc = "done" /\ res.op = "points"

\* the view of the points x under the flags: centered first when center is
\* set, then scaled to unit power when normalize is set
ViewOf(x, center, normalize) ==
    LET x1 == IF center THEN CenterPoints(x) ELSE x
    IN  IF normalize THEN NormalizePoints(x1) ELSE x1

\* C23: normalization and centering are not stored: whatever the flags were
\* at construction and since, the points read from a QAM or PAM
\* constellation are the view, under the current flags, of the raw generated
\* points, so that with normalize = False (and center = False) they are the
\* grid of odd integers.
C23_ViewDependsOnRawPointsAndFlags ==
    PointsRead /\ constellation.constellation_type \in {"qam", "pam"}
               /\ ~constellation.trainable =>
        \A raw \in {IF constellation.constellation_type = "qam"
                    THEN qam(constellation.num_bits_per_symbol, FALSE)
                    ELSE pam(constellation.num_bits_per_symbol, FALSE)} :
           /\ res.out = ViewOf(raw, constellation.center, constellation.normalize)
           /\ ~constellation.normalize /\ ~constellation.center =>
                 /\ res.out.vn = res.out.vd
                 /\ \A i \in DOMAIN res.out.re : res.out.re[i] % 2 = 1

\* C25: with center and normalize both set the points read are the stored
\* points minus their mean, divided by the square root of the mean squared
\* magnitude of these centered points: their sum is zero and their mean power
\* is one; with center alone their sum is zero.
C25_CenterThenNormalize ==
    PointsRead =>
        LET x == res.out
            n == Cardinality(DOMAIN x.re)
        IN  /\ constellation.center =>
                  ArraySum(x.re) = 0 /\ ArraySum(x.im) = 0
            /\ constellation.center /\ constellation.normalize =>
                  /\ SumSquaredMagnitudes(x) * x.vd = n * x.vn
                  /\ x = NormalizePoints(CenterPoints(constellation.points))
            /\ constellation.center /\ ~constellation.normalize =>
                  x = CenterPoints(constellation.points)

\* a custom constellation whose stored points do not add up to zero, read
\* with both flags set
C25_Witness ==
    /\ PointsRead
    /\ constellation.constellation_type = "custom"
    /\ constellation.center
    /\ constellation.normalize
    /\ ArraySum(constellation.points.re) # 0
    /\ ArraySum(res.out.re) = 0

(***************************************************************************)
(* One QAM or PAM Constellation, trainable or not, shared by a Mapper, a   *)
(* Demapper and a SymbolDemapper: between their calls the flags are set,   *)
(* the trainable points assigned and the points read.  The demappers give  *)
(* soft outputs, which change with the scale of the points.                *)
(***************************************************************************)
MaxKLife == 2

InitLifecycle ==
    /\ \E ctype \in ConstellationTypes, K \in 1..MaxKLife,
          normalize \in BOOLEAN, center \in BOOLEAN, trainable \in BOOLEAN,
          method \in Methods :
          /\ Constellation_init(ctype, K, None, normalize, center,
                                trainable) # Error
          /\ constellation = Constellation_init(ctype, K, None, normalize,
                                                center, trainable)
          /\ mapper = Mapper_init("None", {K}, constellation, FALSE)
          /\ demapper = Demapper_init(method, "None", {K}, constellation,
                                      FALSE, FALSE)
          /\ symboldemapper = SymbolDemapper_init("None", {K}, constellation,
                                                  FALSE, FALSE)
    /\ logits2llrs = None
    /\ llrs2logits = None
    /\ qam2pam = None
    /\ pam2qam = None
    /\ inds2bits = None
    /\ pc = "idle"
    /\ res = None

\* x = mapper(bits), bits one group of K bits, or a vector, which is refused
MapOneGroup ==
    /\ pc = "idle"
    /\ mapper # None
    /\ \E inputs \in BitTensors(<<1, constellation.num_bits_per_symbol>>)
                        \cup BitTensors(<<1>>) :
          res' = [op |-> "Mapper", in |-> inputs,
                  out |-> Mapper_call(mapper, constellation, inputs)]
    /\ pc' = "done"
    /\ UNCHANGED Objects

\* out = symboldemapper([y, no]) with no > 0
SymbolDemapperCallPositive ==
    /\ pc = "idle"
    /\ symboldemapper # None
    /\ ~symboldemapper.with_prior
    /\ \E points \in {Constellation_call(constellation)} :
           \E y \in SymbolSamples(points), no \in NoiseVariances(points) :
              /\ \A s \in DOMAIN y.data, i \in DOMAIN points.re :
                    ExponentIsWhole(SquaredDist(y.data[s], PointAt(points, i)), no)
              /\ \E out \in SymbolDemapper_call(symboldemapper, constellation, y, no) :
                    res' = [op |-> "SymbolDemapper", in |-> [y |-> y, no |-> no],
                            out |-> out]
    /\ pc' = "done"
    /\ UNCHANGED Objects

NextLifecycle ==
    \/ SetNormalize
    \/ SetCenter
    \/ AssignPoints
    \/ ReadPoints
    \/ CreateOrCheck
    \/ MapOneGroup
    \/ DemapperCall
    \/ SymbolDemapperCallPositive
    \/ Return

SpecLifecycle == InitLifecycle /\ [][NextLifecycle]_vars

\* the constellation as it stands, with its view stored and both flags off
CurrentView ==
    [constellation EXCEPT
        !.points = ViewOf(constellation.points, constellation.center,
                          constellation.normalize),
        !.center = FALSE,
        !.normalize = FALSE]

\* C24: the effective points are never cached: whatever flag changes,
\* assignments to the trainable points and reads came before, a read of
\* Constellation.points returns, and a Mapper, Demapper or SymbolDemapper
\* call works on, the view derived from the flags and the stored points as
\* they are at the time of the call.
C24_ViewIsNeverCached ==
    \A view \in {IF constellation = None THEN None ELSE CurrentView} :
       /\ PointsRead => res.out = view.points
       /\ MapperReturned => res.out = Mapper_call(mapper, view, res.in)
       /\ DemapperReturned =>
             res.out = Demapper_call(demapper, view, res.in.y, res.in.no)
       /\ SymbolDemapperReturned =>
             res.out \in SymbolDemapper_call(symboldemapper, view,
                                             res.in.y, res.in.no)

\* a Demapper call on a trainable constellation whose points were assigned
\* and whose flags are no longer those of the construction
C24_Witness ==
    /\ DemapperReturned
    /\ constellation.trainable
    /\ constellation.center
    /\ ~constellation.normalize
    /\ constellation.points \in AssignedPoints(constellation.points)
    /\ res.out # Error

\* C26: a rejected operation changes nothing: when a flag setter given a
\* non-boolean value, a create_or_check_constellation call or a Mapper or
\* Demapper call ends in an error, the normalize flag, the center flag and
\* the stored points of the constellation (and every other object) are what
\* they were before the call.
C26_RejectedCallsChangeNothing ==
    [][(pc = "idle" /\ pc' = "done" /\ res'.out = Error)
          => (constellation' = constellation /\ Objects' = Objects)]_vars

\* normalize was set to a non-boolean value whose truth differs from the
\* flag: the call failed and the flag is as before
C26_Witness ==
    /\ pc = "done"
    /\ res.op = "normalize"
    /\ ~res.in.is_bool
    /\ res.out = Error
    /\ res.in.truth # constellation.normalize
    /\ constellation.trainable

(***************************************************************************)
(* Priors.  A prior LLR is a whole multiple x of ln(Base), and             *)
(*     log_sigmoid(x ln Base) = max(x,0) ln Base - ln(1 + Base^|x|),       *)
(* so that every log-probability met here is  e ln(Base) - ln(D)  for an   *)
(* integer e and a natural number D not divisible by Base: a LogValue      *)
(* [e, D], unique for the number it stands for.                            *)
(***************************************************************************)
RECURSIVE LogValue(_, _)
\* e ln(Base) - ln(D) in lowest terms
LogValue(e, D) ==
    IF D % Base = 0 THEN LogValue(e - 1, D \div Base) ELSE [e |-> e, D |-> D]

\* tf.math.log_sigmoid(x ln Base)
log_sigmoid(x) == LogValue(IF x > 0 THEN x ELSE 0, 1 + Base^Abs(x))

RECURSIVE LogValueSum(_, _, _)
\* tf.reduce_sum of the LogValues v[lo..hi]
LogValueSum(v, lo, hi) ==
    IF lo > hi THEN [e |-> 0, D |-> 1]
    ELSE LET rest == LogValueSum(v, lo + 1, hi)
         IN  LogValue(v[lo].e + rest.e, v[lo].D * rest.D)

\* the least common multiple of the naturals of S
RECURSIVE LCM(_)
LCM(S) ==
    IF S = {} THEN 1
    ELSE LET d == CHOOSE x \in S : TRUE
             l == LCM(S \ {d})
         IN  (d \div GCD(d, l)) * l

RECURSIVE ExpTimes(_, _)
\* the ExpNum num * t, t > 0
ExpTimes(num, t) ==
    IF DOMAIN num = {} THEN ExpZero
    ELSE LET p == CHOOSE q \in DOMAIN num : TRUE
         IN  AddPowTimes(ExpTimes(Array([q \in DOMAIN num \ {p} |-> num[q]]), t),
                         p, num[p] * t)

RECURSIVE ExpMul(_, _)
\* the product of two ExpNums
ExpMul(num1, num2) ==
    IF DOMAIN num2 = {} THEN ExpZero
    ELSE LET p == CHOOSE q \in DOMAIN num2 : TRUE
             shifted == Array([q \in {r + p : r \in DOMAIN num1} |-> num1[q - p]])
         IN  ExpAdd(ExpTimes(shifted, num2[p]),
                    ExpMul(num1, Array([q \in DOMAIN num2 \ {p} |-> num2[q]])))

\* ln(num) - ln(D): the reduction of the LogValues x, whose exponentials
\* come over the common denominator D
ReduceLogValues(method, x) ==
    LET D == LCM({x[i].D : i \in DOMAIN x})
        terms == Array([i \in DOMAIN x |->
                          ExpTimes(AddPow(ExpZero, x[i].e), D \div x[i].D)])
        best == CHOOSE i \in DOMAIN x :
                   \A j \in DOMAIN x : ExpGeq(terms[i], terms[j])
    IN  [num |-> IF method = "app"
                 THEN LET RECURSIVE Sum(_)
                          Sum(n) == IF n < 0 THEN ExpZero
                                    ELSE ExpAdd(Sum(n - 1), terms[n])
                      IN  Sum(Cardinality(DOMAIN x) - 1)
                 ELSE terms[best],
         D |-> D]

\* the difference of two reductions ln(n1/D1) - ln(n0/D0), as the LLR
\* ln(n1 * D0) - ln(n0 * D1) with the common factor of D0 and D1 left out
LogValueDiff(s1, s0) ==
    LET g == GCD(s1.D, s0.D)
    IN  LogDiff(ExpTimes(s1.num, s0.D \div g), ExpTimes(s0.num, s1.D \div g))

\* whether two LLRs ln(num) - ln(den) are the same number
LLREqual(a, b) == ExpMul(a.num, b.den) = ExpMul(b.num, a.den)

\* exp_ps: the log prior probability of every symbol, the sum over the bits
\* k of log_sigmoid(a[c][k] * prior[k])
SymbolLogPrior(a, prior) ==
    Array([c \in DOMAIN a |->
              LogValueSum([k \in DOMAIN prior |-> log_sigmoid(a[c][k] * prior[k])],
                          0, Cardinality(DOMAIN prior) - 1)])

\* a call that leaves the prior out of the reduction over the zeros
SymbolLogits2LLRs_call_prior_on_ones(self, logits, prior) ==
    LET exp_ps == SymbolLogPrior(self.a, prior)
        sum == Array([c \in DOMAIN logits |->
                         [e |-> exp_ps[c].e + logits[c], D |-> exp_ps[c].D]])
        plain == Array([c \in DOMAIN logits |-> [e |-> logits[c], D |-> 1]])
        exp0 == Gather2(plain, self.c0)
        exp1 == Gather2(sum, self.c1)
        llr == [i \in 0..self.num_bits_per_symbol-1 |->
                    LogValueDiff(ReduceLogValues(self.method, Column(exp1, i)),
                                 ReduceLogValues(self.method, Column(exp0, i)))]
    IN  IF self.hard_out
        THEN [i \in DOMAIN llr |-> hard_decisions(llr[i])]
        ELSE llr

\* a call with prior that subtracts the wrong way round: zeros minus ones
SymbolLogits2LLRs_call_prior_flipped(self, logits, prior) ==
    LET exp_ps == SymbolLogPrior(self.a, prior)
        sum == Array([c \in DOMAIN logits |->
                         [e |-> exp_ps[c].e + logits[c], D |-> exp_ps[c].D]])
        exp0 == Gather2(sum, self.c0)
        exp1 == Gather2(sum, self.c1)
        llr == [i \in 0..self.num_bits_per_symbol-1 |->
                    LogValueDiff(ReduceLogValues(self.method, Column(exp0, i)),
                                 ReduceLogValues(self.method, Column(exp1, i)))]
    IN  IF self.hard_out
        THEN [i \in DOMAIN llr |-> hard_decisions(llr[i])]
        ELSE llr

\* SymbolLogits2LLRs.call with inputs (logits, prior): prior is a vector of
\* K LLRs, in units of ln(Base)
SymbolLogits2LLRs_call_prior(self, logits, prior) ==
    LET exp_ps == SymbolLogPrior(self.a, prior)
        sum == Array([c \in DOMAIN logits |->
                         [e |-> exp_ps[c].e + logits[c], D |-> exp_ps[c].D]])
        exp0 == Gather2(sum, self.c0)
        exp1 == Gather2(sum, self.c1)
        llr == [i \in 0..self.num_bits_per_symbol-1 |->
                    LogValueDiff(ReduceLogValues(self.method, Column(exp1, i)),
                                 ReduceLogValues(self.method, Column(exp0, i)))]
    IN  IF self.hard_out
        THEN [i \in DOMAIN llr |-> hard_decisions(llr[i])]
        ELSE llr

\* SymbolLogits2LLRsWithPrior.__init__: what it hands to the constructor of
\* SymbolLogits2LLRs is hard_out=False, whatever its own hard_out is
SymbolLogits2LLRsWithPrior_init(method, K, hard_out) ==
    SymbolLogits2LLRs_init(method, K, FALSE, TRUE)

\* DemapperWithPrior.__init__
DemapperWithPrior_init(demapping_method, constellation_type, K, c, hard_out) ==
    Demapper_init(demapping_method, constellation_type, K, c, hard_out, TRUE)

\* SymbolDemapperWithPrior.__init__
SymbolDemapperWithPrior_init(constellation_type, K, c, hard_out) ==
    SymbolDemapper_init(constellation_type, K, c, hard_out, TRUE)

\* Demapper.call with inputs (y, prior, no): one prior vector of K LLRs for
\* the entire batch
Demapper_call_prior(self, c, y, prior, no) ==
    LET points == Value(Constellation_call(c))
        K == c.num_bits_per_symbol
        no1 == NoMaximum(no, self.no_threshold)
        llr == Array([s \in DOMAIN y.data |->
                   Array(SymbolLogits2LLRs_call_prior(self.logits2llrs,
                             Exponents(points, y.data[s], no1), prior))])
        n == y.shape[Len(y.shape)]
    IN  Tensor(SubSeq(y.shape, 1, Len(y.shape) - 1) \o <<n * K>>,
               [x \in 0..Size(y)*K - 1 |-> llr[x \div K][x % K]])

\* exp + prior for one sample: prior[i] is a whole multiple of ln(Base)
FloatAddPrior(exp, prior) ==
    Array([i \in DOMAIN exp |->
              IF exp[i].cls = "finite" THEN Finite(exp[i].v + prior[i])
              ELSE exp[i]])

\* SymbolDemapper.call with inputs (y, prior, no): one prior vector of
\* num_points log-probabilities for the entire batch
SymbolDemapper_call_prior(self, c, y, prior, no) ==
    LET points == Value(Constellation_call(c))
        exp == Array([s \in DOMAIN y.data |->
                         FloatAddPrior(FloatExponents(points, y.data[s], no),
                                       prior)])
    IN  IF self.hard_out
        THEN {Tensor(y.shape, ind) :
                 ind \in {f \in [DOMAIN y.data -> DOMAIN points.re] :
                             \A s \in DOMAIN y.data : f[s] \in tf_argmax(exp[s])}}
        ELSE {Tensor(y.shape \o <<Cardinality(DOMAIN points.re)>>,
                     Array([s \in DOMAIN y.data |-> log_softmax(exp[s])]))}

(***************************************************************************)
(* The layers that take a prior: one of them is constructed, through the   *)
(* unified class with with_prior=True or through the deprecated class, and *)
(* then called.                                                            *)
(***************************************************************************)
\* largest num_bits_per_symbol of a layer with prior
MaxKPrior == 2
\* the prior LLRs are p * ln(Base), p in -MaxPrior..MaxPrior
MaxPrior == 1

\* the prior LLRs on the K bits
BitPriors(K) == [0..K-1 -> -MaxPrior..MaxPrior]

\* the prior log-probabilities on the points
PointPriors(K) == HotVectors(Pow2(K), 1)

\* the received samples that meet a prior: batches of one sample
OneSample(samples) == {y \in samples : y.shape = <<1>>}

\* the logits that meet a prior: at most one of them is not 0
PriorLogitVectors(K) == HotVectors(Pow2(K), 1)

InitPrior ==
    /\ constellation = None
    /\ mapper = None
    /\ demapper = None
    /\ logits2llrs = None
    /\ llrs2logits = None
    /\ qam2pam = None
    /\ pam2qam = None
    /\ inds2bits = None
    /\ symboldemapper = None
    /\ pc = "idle"
    /\ res = None

NoLayer ==
    /\ pc = "idle"
    /\ logits2llrs = None
    /\ demapper = None
    /\ symboldemapper = None

NewSymbolLogits2LLRs ==
    /\ NoLayer
    /\ \E cls \in {"SymbolLogits2LLRs", "SymbolLogits2LLRsWithPrior"},
          method \in Methods, K \in 1..MaxKPrior, hard_out \in BOOLEAN :
          /\ logits2llrs' =
                IF cls = "SymbolLogits2LLRs"
                THEN SymbolLogits2LLRs_init(method, K, hard_out, TRUE)
                ELSE SymbolLogits2LLRsWithPrior_init(method, K, hard_out)
          /\ res' = [op |-> "__init__",
                     in |-> [cls |-> cls, method |-> method, K |-> K,
                             hard_out |-> hard_out],
                     out |-> logits2llrs']
    /\ pc' = "done"
    /\ UNCHANGED <<constellation, mapper, demapper, llrs2logits, qam2pam,
                   pam2qam, inds2bits, symboldemapper>>

NewDemapper ==
    /\ NoLayer
    /\ \E cls \in {"Demapper", "DemapperWithPrior"}, method \in Methods,
          ctype \in ConstellationTypes, K \in 1..MaxKPrior,
          hard_out \in BOOLEAN :
          /\ Constellation_init(ctype, K, None, TRUE, FALSE, FALSE) # Error
          /\ constellation' =
                Constellation_init(ctype, K, None, TRUE, FALSE, FALSE)
          /\ demapper' =
                IF cls = "Demapper"
                THEN Demapper_init(method, "None", {K}, constellation',
                                   hard_out, TRUE)
                ELSE DemapperWithPrior_init(method, "None", {K},
                                            constellation', hard_out)
          /\ res' = [op |-> "__init__",
                     in |-> [cls |-> cls, method |-> method, K |-> K,
                             hard_out |-> hard_out],
                     out |-> demapper']
    /\ pc' = "done"
    /\ UNCHANGED <<mapper, logits2llrs, llrs2logits, qam2pam, pam2qam,
                   inds2bits, symboldemapper>>

NewSymbolDemapper ==
    /\ NoLayer
    /\ \E cls \in {"SymbolDemapper", "SymbolDemapperWithPrior"},
          ctype \in ConstellationTypes, K \in 1..MaxKPrior,
          hard_out \in BOOLEAN :
          /\ Constellation_init(ctype, K, None, TRUE, FALSE, FALSE) # Error
          /\ constellation' =
                Constellation_init(ctype, K, None, TRUE, FALSE, FALSE)
          /\ symboldemapper' =
                IF cls = "SymbolDemapper"
                THEN SymbolDemapper_init("None", {K}, constellation',
                                         hard_out, TRUE)
                ELSE SymbolDemapperWithPrior_init("None", {K},
                                                  constellation', hard_out)
          /\ res' = [op |-> "__init__",
                     in |-> [cls |-> cls, method |-> "None", K |-> K,
                             hard_out |-> hard_out],
                     out |-> symboldemapper']
    /\ pc' = "done"
    /\ UNCHANGED <<mapper, demapper, logits2llrs, llrs2logits, qam2pam,
                   pam2qam, inds2bits>>

\* the layer just constructed is called; the arguments of its constructor
\* stay on record next to the inputs of the call
LayerConstructed == pc = "done" /\ res.op = "__init__"

SymbolLogits2LLRsPriorCall ==
    /\ LayerConstructed
    /\ logits2llrs # None
    /\ logits2llrs.with_prior
    /\ \E logits \in PriorLogitVectors(logits2llrs.num_bits_per_symbol),
          prior \in BitPriors(logits2llrs.num_bits_per_symbol) :
          res' = [op |-> "call",
                  in |-> [init |-> res.in, logits |-> logits, prior |-> prior],
                  out |-> SymbolLogits2LLRs_call_prior(logits2llrs, logits,
                                                       prior)]
    /\ pc' = "done"
    /\ UNCHANGED Objects

DemapperPriorCall ==
    /\ LayerConstructed
    /\ demapper # None
    /\ demapper.with_prior
    /\ \E points \in {Constellation_call(constellation)} :
           \E y \in OneSample(SampleTensors(points)), no \in NoiseVariances(points),
              prior \in BitPriors(constellation.num_bits_per_symbol) :
              /\ \A s \in DOMAIN y.data, i \in DOMAIN points.re :
                    ExponentIsWhole(SquaredDist(y.data[s], PointAt(points, i)),
                                    NoMaximum(no, demapper.no_threshold))
              /\ res' = [op |-> "call",
                         in |-> [init |-> res.in, y |-> y, no |-> no,
                                 prior |-> prior],
                         out |-> Demapper_call_prior(demapper, constellation,
                                                     y, prior, no)]
    /\ pc' = "done"
    /\ UNCHANGED Objects

SymbolDemapperPriorCall ==
    /\ LayerConstructed
    /\ symboldemapper # None
    /\ symboldemapper.with_prior
    /\ \E points \in {Constellation_call(constellation)} :
           \E y \in OneSample(SymbolSamples(points)), no \in NoiseVariances(points),
              prior \in PointPriors(constellation.num_bits_per_symbol) :
              /\ \A s \in DOMAIN y.data, i \in DOMAIN points.re :
                    ExponentIsWhole(SquaredDist(y.data[s], PointAt(points, i)), no)
              /\ \E out \in SymbolDemapper_call_prior(symboldemapper,
                                             constellation, y, prior, no) :
                    res' = [op |-> "call",
                            in |-> [init |-> res.in, y |-> y, no |-> no,
                                    prior |-> prior],
                            out |-> out]
    /\ pc' = "done"
    /\ UNCHANGED Objects

NextPrior ==
    \/ NewSymbolLogits2LLRs
    \/ NewDemapper
    \/ NewSymbolDemapper
    \/ SymbolLogits2LLRsPriorCall
    \/ DemapperPriorCall
    \/ SymbolDemapperPriorCall
    \/ Return

SpecPrior == InitPrior /\ [][NextPrior]_vars

(***************************************************************************)
(* Claims on the layers that take a prior                                  *)
(***************************************************************************)
\* a call with prior of a SymbolLogits2LLRs has returned
PriorLLRReturned ==
    /\ pc = "done"
    /\ res.op = "call"
    /\ logits2llrs # None

\* C28: a prior of all zeros is equivalent to no prior: for every K, method
\* and logit vector, SymbolLogits2LLRs with with_prior=True and prior 0
\* returns the same LLRs (the same hard decisions with hard_out) as the
\* SymbolLogits2LLRs with with_prior=False of the same method, K, hard_out
C28_ZeroPriorIsNoPrior ==
    (PriorLLRReturned /\ \A k \in DOMAIN res.in.prior : res.in.prior[k] = 0) =>
        LET without == SymbolLogits2LLRs_call(
                           SymbolLogits2LLRs_init(logits2llrs.method,
                               logits2llrs.num_bits_per_symbol,
                               logits2llrs.hard_out, FALSE),
                           res.in.logits)
        IN  /\ DOMAIN res.out = DOMAIN without
            /\ \A k \in DOMAIN without :
                  IF logits2llrs.hard_out
                  THEN res.out[k] = without[k]
                  ELSE LLREqual(res.out[k], without[k])

\* a zero prior met logits that are not all equal, and the LLRs are not all 0
C28_Witness ==
    /\ PriorLLRReturned
    /\ ~logits2llrs.hard_out
    /\ logits2llrs.num_bits_per_symbol = MaxKPrior
    /\ \A k \in DOMAIN res.in.prior : res.in.prior[k] = 0
    /\ \E c \in DOMAIN res.in.logits : res.in.logits[c] # 0
    /\ \E k \in DOMAIN res.out : res.out[k].num # res.out[k].den

\* a call with prior of a Demapper has returned
PriorDemapperReturned ==
    /\ pc = "done"
    /\ res.op = "call"
    /\ demapper # None

\* ln Pr(c|p) - |y-c|^2/No for the point of index c, in units of ln(Base)
\* and up to the term -sum_k ln(1 + Base^p[k]), which is the same for every
\* point: Pr(c|p) is the product over the bits k of the label of c of
\* Base^p[k]/(1 + Base^p[k]) for a bit 1 and of 1/(1 + Base^p[k]) for a bit 0
PointMetric(points, y, no, prior, c) ==
    LET a == LabelArray(Cardinality(DOMAIN prior))
    IN  SumRange([k \in DOMAIN prior |-> a[c][k] * prior[k]],
                 0, Cardinality(DOMAIN prior) - 1)
          + Exponent(SquaredDist(y, PointAt(points, c)), no)

\* the largest metric over the points whose bit k is b
MaxMetric(points, y, no, prior, k, b) ==
    LET a == LabelArray(Cardinality(DOMAIN prior))
    IN  SetMax({PointMetric(points, y, no, prior, c) :
                   c \in {i \in DOMAIN a : a[i][k] = b}})

\* the largest metric of sample s of the call over the points whose bit k
\* is b
MaxOverBit(s, k, b) ==
    MaxMetric(Constellation_call(constellation), res.in.y.data[s],
              NoMaximum(res.in.no, demapper.no_threshold), res.in.prior, k, b)

\* every output of the maxlog Demapper is the LLR: the largest metric over
\* the points whose bit is b1 minus the largest over those whose bit is b0
MaxlogOutputIs(b1, b0) ==
    LET K == constellation.num_bits_per_symbol
    IN  \A s \in DOMAIN res.in.y.data, k \in 0..K-1 :
           LET out == res.out.data[s*K + k]
               llr == LogDiff(AddPow(ExpZero, MaxOverBit(s, k, b1)),
                              AddPow(ExpZero, MaxOverBit(s, k, b0)))
           IN  IF demapper.logits2llrs.hard_out
               THEN out = hard_decisions(llr)
               ELSE LLREqual(out, llr)

WithPriorClassReturned ==
    /\ pc = "done"
    /\ res.op = "call"
    /\ res.in.init.cls \in {"SymbolLogits2LLRsWithPrior", "DemapperWithPrior",
                            "SymbolDemapperWithPrior"}

\* the layer of the unified class constructed with with_prior=True and the
\* arguments on record
UnifiedLayer ==
    LET init == res.in.init
    IN  IF logits2llrs # None
        THEN SymbolLogits2LLRs_init(init.method, init.K, init.hard_out, TRUE)
        ELSE IF demapper # None
        THEN Demapper_init(init.method, "None", {init.K}, constellation,
                           init.hard_out, TRUE)
        ELSE SymbolDemapper_init("None", {init.K}, constellation,
                                 init.hard_out, TRUE)

\* the layer that was called
CalledLayer ==
    IF logits2llrs # None THEN logits2llrs
    ELSE IF demapper # None THEN demapper
    ELSE symboldemapper

\* whether a layer returns hard decisions
HardOutOf(layer) ==
    IF logits2llrs # None THEN layer.hard_out
    ELSE IF demapper # None THEN layer.logits2llrs.hard_out
    ELSE layer.hard_out

\* the outputs that the unified layer can return on the inputs on record
UnifiedOutputs ==
    IF logits2llrs # None
    THEN {SymbolLogits2LLRs_call_prior(UnifiedLayer, res.in.logits,
                                       res.in.prior)}
    ELSE IF demapper # None
    THEN {Demapper_call_prior(UnifiedLayer, constellation, res.in.y,
                              res.in.prior, res.in.no)}
    ELSE SymbolDemapper_call_prior(UnifiedLayer, constellation, res.in.y,
                                   res.in.prior, res.in.no)

\* C27: each deprecated ...WithPrior class only fixes with_prior=True: for
\* every choice of the remaining constructor arguments and every input it
\* returns the same output as the unified class constructed with
\* with_prior=True and those same arguments: an output of the same kind
\* (soft values or hard decisions) and the same values
C27_WithPriorClassesOnlyFixWithPrior ==
    WithPriorClassReturned =>
        /\ HardOutOf(CalledLayer) = HardOutOf(UnifiedLayer)
        /\ res.out \in UnifiedOutputs

(***************************************************************************)
(* LLRs2SymbolLogits.call: llrs is a vector of K LLRs, in units of         *)
(* ln(Base); the logits are LogValues.                                     *)
(***************************************************************************)
\* x >= y for two LogValues
LogValueGeq(x, y) ==
    IF x.D = y.D THEN x.e >= y.e
    ELSE ExpGeq(ExpTimes(AddPow(ExpZero, x.e), y.D),
                ExpTimes(AddPow(ExpZero, y.e), x.D))

\* the indices of a smallest entry
tf_argmin_logits(x) ==
    {i \in DOMAIN x : \A j \in DOMAIN x : LogValueGeq(x[j], x[i])}

\* tf.argmax(logits, axis=-1, output_type=tf.int32): the index of a largest
\* entry; which one among equal entries is not guaranteed
tf_argmax_logits(x) ==
    {i \in DOMAIN x : \A j \in DOMAIN x : LogValueGeq(x[i], x[j])}

\* the outputs that LLRs2SymbolLogits.call can return
LLRs2SymbolLogits_call(self, llrs) ==
    LET logits == Value(SymbolLogPrior(self.a, llrs))
    IN  IF self.hard_out THEN tf_argmax_logits(logits) ELSE {logits}

\* largest num_bits_per_symbol of an LLRs2SymbolLogits that is called
MaxKLLRs == 3
\* the LLRs are l * ln(Base), l in -MaxLLR..MaxLLR
MaxLLR == 2

LLRVectors(K) == [0..K-1 -> -MaxLLR..MaxLLR]

InitLLRs2SymbolLogits ==
    /\ \E K \in 1..MaxKLLRs, hard_out \in BOOLEAN :
          llrs2logits = LLRs2SymbolLogits_init(K, hard_out)
    /\ constellation = None
    /\ mapper = None
    /\ demapper = None
    /\ logits2llrs = None
    /\ qam2pam = None
    /\ pam2qam = None
    /\ inds2bits = None
    /\ symboldemapper = None
    /\ pc = "idle"
    /\ res = None

LLRs2SymbolLogitsCall ==
    /\ pc = "idle"
    /\ llrs2logits # None
    /\ \E llrs \in LLRVectors(llrs2logits.num_bits_per_symbol) :
          \E out \in LLRs2SymbolLogits_call(llrs2logits, llrs) :
             res' = [op |-> "LLRs2SymbolLogits", in |-> llrs, out |-> out]
    /\ pc' = "done"
    /\ UNCHANGED Objects

NextLLRs2SymbolLogits == LLRs2SymbolLogitsCall \/ Return

SpecLLRs2SymbolLogits ==
    InitLLRs2SymbolLogits /\ [][NextLLRs2SymbolLogits]_vars

(***************************************************************************)
(* Claims on LLRs2SymbolLogits                                             *)
(***************************************************************************)
\* a call of an LLRs2SymbolLogits with hard_out has returned
HardLLRs2SymbolLogitsReturned ==
    /\ pc = "done"
    /\ res.op = "LLRs2SymbolLogits"
    /\ llrs2logits.hard_out

\* bit k, counted from the most significant, of the K-bit integer i
BitOfIndex(i, K, k) == (i \div Pow2(K - 1 - k)) % 2

====
